---------------------------- MODULE Spec2Model ----------------------------
(***************************************************************************)
(* A model of the takeoff floorplan application: the deterministic mock   *)
(* detector (src/lib/analysis.ts), the mask-to-boundary extractor and the  *)
(* /api/analyze route handler (src/app/api/analyze/route.ts).              *)
(*                                                                         *)
(* Numbers.  The program computes with IEEE doubles.  The generator state  *)
(* stays below 2^31 and value * 16807 below 2^53, so the generator is      *)
(* exact integer arithmetic and is modelled as such.  Every other number   *)
(* (a draw, a boundary coordinate, a confidence before rounding) is        *)
(* modelled as an exact rational num/den over arbitrary-precision          *)
(* naturals; the rounding of intermediate doubles is not modelled.  TLC's  *)
(* integers are 32 bits wide, so naturals beyond that are sequences of     *)
(* base-10000 limbs, least significant first, <<>> being zero.             *)
(***************************************************************************)
EXTENDS Integers, Sequences, FiniteSets, TLC

-----------------------------------------------------------------------------
(* Arbitrary-precision naturals *)

BigBase == 100 * 100

\* The position of the most significant non-zero limb of a, 0 when there is none
BigTop(a) ==
    LET nonZero == {i \in 1..Len(a) : a[i] # 0}
    IN  IF nonZero = {} THEN 0 ELSE CHOOSE i \in nonZero : \A j \in nonZero : j <= i

BigStrip(a) == SubSeq(a, 1, BigTop(a))

\* For 0 <= n < 2^31, which is below BigBase^3
BigOfInt(n) ==
    BigStrip(<<n % BigBase, (n \div BigBase) % BigBase, n \div (BigBase * BigBase)>>)

RECURSIVE BigAddC(_, _, _)
BigAddC(a, b, c) ==
    IF a = <<>> /\ b = <<>> THEN (IF c = 0 THEN <<>> ELSE <<c>>)
    ELSE LET x  == (IF a = <<>> THEN 0 ELSE Head(a))
                   + (IF b = <<>> THEN 0 ELSE Head(b)) + c
             ta == IF a = <<>> THEN <<>> ELSE Tail(a)
             tb == IF b = <<>> THEN <<>> ELSE Tail(b)
         IN  <<x % BigBase>> \o BigAddC(ta, tb, x \div BigBase)

BigAdd(a, b) == BigAddC(a, b, 0)

\* a - b for a >= b
RECURSIVE BigSubC(_, _, _)
BigSubC(a, b, c) ==
    IF a = <<>> THEN <<>>
    ELSE LET x  == Head(a) - (IF b = <<>> THEN 0 ELSE Head(b)) - c
             tb == IF b = <<>> THEN <<>> ELSE Tail(b)
         IN  IF x < 0 THEN <<x + BigBase>> \o BigSubC(Tail(a), tb, 1)
             ELSE <<x>> \o BigSubC(Tail(a), tb, 0)

BigSub(a, b) == BigStrip(BigSubC(a, b, 0))

\* The sum of a[i] * b[k + 1 - i] for i in lo..hi.  Exact in 32 bits for up
\* to 20 terms, each below BigBase^2.
RECURSIVE BigColumnIn(_, _, _, _, _)
BigColumnIn(a, b, k, lo, hi) ==
    IF lo > hi THEN 0
    ELSE IF lo = hi THEN a[lo] * b[k + 1 - lo]
    ELSE LET mid == (lo + hi) \div 2
         IN  BigColumnIn(a, b, k, lo, mid) + BigColumnIn(a, b, k, mid + 1, hi)

\* Column k of the long multiplication of a and b
BigColumn(a, b, k) ==
    BigColumnIn(a, b, k, IF k + 1 - Len(b) > 1 THEN k + 1 - Len(b) ELSE 1,
                         IF k < Len(a) THEN k ELSE Len(a))

\* The limbs of the number whose columns, least significant first, are cols
RECURSIVE BigCarry(_, _, _)
BigCarry(cols, i, c) ==
    IF i > Len(cols) THEN BigOfInt(c)
    ELSE LET x == cols[i] + c
         IN  <<x % BigBase>> \o BigCarry(cols, i + 1, x \div BigBase)

\* Long multiplication: the column sums, then the carries
BigMul(a, b) ==
    IF a = <<>> \/ b = <<>> THEN <<>>
    ELSE BigCarry([k \in 1..(Len(a) + Len(b) - 1) |-> BigColumn(a, b, k)], 1, 0)

\* -1, 0, 1 as a < b, a = b, a > b
BigCmp(a, b) ==
    IF Len(a) < Len(b) THEN -1
    ELSE IF Len(a) > Len(b) THEN 1
    ELSE LET differ == {i \in 1..Len(a) : a[i] # b[i]}
         IN  IF differ = {} THEN 0
             ELSE LET i == CHOOSE i \in differ : \A j \in differ : j <= i
                  IN  IF a[i] < b[i] THEN -1 ELSE 1

BigLeq(a, b) == BigCmp(a, b) <= 0
BigLt(a, b) == BigCmp(a, b) < 0

-----------------------------------------------------------------------------
(* Non-negative rationals [num, den], den > 0, not reduced *)

Rat(n, d) == [num |-> n, den |-> d]
RatOf(n, d) == Rat(BigOfInt(n), BigOfInt(d))
RatInt(n) == RatOf(n, 1)

RatAdd(p, q) ==
    IF p.num = <<>> THEN q
    ELSE IF q.num = <<>> THEN p
    ELSE Rat(BigAdd(BigMul(p.num, q.den), BigMul(q.num, p.den)),
             BigMul(p.den, q.den))
\* p - q for p >= q
RatSub(p, q) ==
    IF q.num = <<>> THEN p
    ELSE Rat(BigSub(BigMul(p.num, q.den), BigMul(q.num, p.den)),
             BigMul(p.den, q.den))
RatMul(p, q) ==
    IF p.num = <<>> \/ q.num = <<>> THEN RatInt(0)
    ELSE Rat(BigMul(p.num, q.num), BigMul(p.den, q.den))
\* p / n for an integer n > 0
RatDivInt(p, n) == Rat(p.num, BigMul(p.den, BigOfInt(n)))

RatCmp(p, q) == BigCmp(BigMul(p.num, q.den), BigMul(q.num, p.den))
RatLeq(p, q) == RatCmp(p, q) <= 0
RatLt(p, q) == RatCmp(p, q) < 0
RatEq(p, q) == RatCmp(p, q) = 0
RatMin(p, q) == IF RatLeq(p, q) THEN p ELSE q
RatMax(p, q) == IF RatLeq(q, p) THEN p ELSE q

\* p < k
RatBelow(p, k) == BigLt(p.num, BigMul(BigOfInt(k), p.den))

\* The largest integer k in lo..hi-1 with k <= p, given lo <= p < hi: the
\* interval is cut into 16 parts and the part holding p searched.
RECURSIVE RatFloorIn(_, _, _)
RatFloorIn(p, lo, hi) ==
    IF hi - lo <= 1 THEN lo
    ELSE LET step == ((hi - lo) + 15) \div 16
             part == CHOOSE k \in 0..15 :
                         RatBelow(p, lo + (k + 1) * step)
             top  == lo + (part + 1) * step
         IN  RatFloorIn(p, lo + part * step, IF top < hi THEN top ELSE hi)

\* A power of 16 above p.
RECURSIVE RatAbove(_, _)
RatAbove(p, hi) == IF RatBelow(p, hi) THEN hi ELSE RatAbove(p, 16 * hi)

\* Math.floor of a non-negative rational
RatFloor(p) == IF p.num = <<>> THEN 0 ELSE RatFloorIn(p, 0, RatAbove(p, 1))

-----------------------------------------------------------------------------
(* State *)

VARIABLES
    \* calls of mockAnalyzeRooms
    mockCalls,    \* the calls made so far: arguments and result
    rngValue,     \* `value` of the generator closure of the latest call (0: none)
    \* a call of maskToBoundary
    maskArgs,     \* its arguments
    maskPc,       \* "call" before the call, "done" after it
    maskResult,   \* what it returned: <<>> for null, <<detection>>
    \* a request to POST /api/analyze
    apiToken,     \* HF_TOKEN is configured (and `inference` is a client)
    apiRequest,   \* the request: body parsed or not, pages, classification, types
    apiPc,        \* "idle", "start", "awaiting" (a remote call), "responded"
    apiIdx,       \* the position in body.pages of the page being analysed
    apiRooms,     \* the `rooms` object: page id -> detections
    apiResponse,  \* <<>>, or <<the response sent>>
    apiLog,       \* what happened, in order: remote calls, their ends, calls
                  \* of mockAnalyzeRooms, stores
    apiRemote,    \* what the remote calls resolved with: page position, value
    \* a request to the single-page analysis route
    svcRequest,   \* the request: body parsed or not, pageIndex, classification, types
    svcPc,        \* "idle", "start", "responded"
    svcResponse,  \* <<>>, or <<the response sent>>
    svcLog,       \* the calls of mockAnalyzeRooms the handler made: arguments
    \* a generator made by seededRandom
    genPc,        \* "idle", "seed" before seededRandom(genSeed), "made" after
    genSeed,      \* the seed
    genValue,     \* `value` of the closure
    genEmitted,   \* <<>>, or <<what the latest call of the closure returned>>
    genDraws,     \* the number of calls of the closure
    \* the page component (src/app/page.tsx)
    uiPages,          \* `pages`: id, index, thumbnail, status, selected, rooms
    uiSelectedPageId, \* `selectedPageId`: <<>> for null, <<id>>
    uiProcessing,     \* `processing`
    uiClassification, \* `classification`
    uiAnalysisError,  \* `analysisError`: <<>> for null, <<message>>
    uiLoadingPages,   \* `loadingPages`
    uiUploadError,    \* `uploadError`: <<>> for null, <<message>>
    uiFileName,       \* `fileName`: <<>> for null, <<name>>
    uiRuns,           \* the calls of handleProcess: position, what they captured
    uiLoads           \* the calls of handleFileChange that reached the reading

mockVars == <<mockCalls, rngValue>>
maskVars == <<maskArgs, maskPc, maskResult>>
apiVars == <<apiToken, apiRequest, apiPc, apiIdx, apiRooms, apiResponse, apiLog,
             apiRemote>>
svcVars == <<svcRequest, svcPc, svcResponse, svcLog>>
genVars == <<genPc, genSeed, genValue, genEmitted, genDraws>>
uiVars == <<uiPages, uiSelectedPageId, uiProcessing, uiClassification,
            uiAnalysisError, uiLoadingPages, uiUploadError, uiFileName, uiRuns,
            uiLoads>>
vars == <<mockVars, maskVars, apiVars, svcVars, genVars, uiVars>>

-----------------------------------------------------------------------------
(* src/lib/analysis.ts: tables *)

baseRoomTypes ==
    << [label |-> "Living Room", color |-> "#F97316"],
       [label |-> "Kitchen",     color |-> "#0EA5E9"],
       [label |-> "Bedroom",     color |-> "#A855F7"],
       [label |-> "Bathroom",    color |-> "#10B981"],
       [label |-> "Circulation", color |-> "#F59E0B"],
       [label |-> "Storage",     color |-> "#6B7280"],
       [label |-> "Mechanical",  color |-> "#14B8A6"],
       [label |-> "Workspace",   color |-> "#EF4444"] >>

\* Record<string, number>: label -> multiplier, as hundredths
residentialBias ==
    [l \in {"Living Room", "Kitchen", "Bedroom", "Bathroom"} |->
        CASE l = "Living Room" -> 110
          [] l = "Kitchen"     -> 105
          [] l = "Bedroom"     -> 120
          [] l = "Bathroom"    -> 115]

commercialBias ==
    [l \in {"Workspace", "Mechanical", "Storage", "Circulation"} |->
        CASE l = "Workspace"   -> 130
          [] l = "Mechanical"  -> 110
          [] l = "Storage"     -> 105
          [] l = "Circulation" -> 108]

randomRoomNames ==
    << "Suite", "Studio", "Flex Space", "Utility",
       "Lobby", "Conference", "Breakroom", "Core" >>

DefaultColor == "#94A3B8"

\* The values of ConstructionType, and the custom room types of a request: none,
\* or one that reuses a base label and one that is new
Classifications == {"residential", "commercial"}
CustomTypeLists ==
    { <<>>,
      << [label |-> "Kitchen", color |-> "#000000"],
         [label |-> "Server Room", color |-> "#6366F1"] >> }

-----------------------------------------------------------------------------
(* src/lib/analysis.ts: seededRandom *)

Modulus == 2147483647
Multiplier == 16807
\* Modulus = Multiplier * SchrageQ + SchrageR
SchrageQ == Modulus \div Multiplier
SchrageR == Modulus % Multiplier

\* The remainder operator of the language: the sign of the dividend.
JsRem(a, m) == IF a >= 0 THEN a % m ELSE -((-a) % m)

\* The initial value without the shift of values that are not positive
SeedValueUnshifted(seed) == JsRem(seed, Modulus)

\* let value = seed % 2147483647; if (value <= 0) value += 2147483646;
SeedValue(seed) ==
    LET value == JsRem(seed, Modulus)
    IN  IF value <= 0 THEN value + (Modulus - 1) ELSE value

\* value = (value * 16807) % 2147483647.  The product is below 2^53 and exact
\* in the program; it exceeds 32 bits, so the same residue is computed by
\* Schrage's decomposition, every intermediate result below 2^31.
NextValue(value) ==
    LET t == Multiplier * (value % SchrageQ) - SchrageR * (value \div SchrageQ)
    IN  IF t < 0 THEN t + Modulus ELSE t

\* return (value - 1) / 2147483646;
Emit(value) == RatOf(value - 1, Modulus - 1)

MaxDraws == 9

\* const rand = seededRandom(genSeed)
GenMake ==
    /\ genPc = "seed"
    /\ genPc' = "made"
    /\ genValue' = SeedValue(genSeed)
    /\ UNCHANGED <<genSeed, genEmitted, genDraws, mockVars, maskVars, apiVars,
                   svcVars, uiVars>>

\* rand(), at most MaxDraws times
GenDraw ==
    /\ genPc = "made"
    /\ genDraws < MaxDraws
    /\ genValue' = NextValue(genValue)
    /\ genEmitted' = <<Emit(genValue')>>
    /\ genDraws' = genDraws + 1
    /\ UNCHANGED <<genPc, genSeed, mockVars, maskVars, apiVars, svcVars, uiVars>>

GenIdle ==
    /\ genPc = "idle" /\ genSeed = 1 /\ genValue = 1
    /\ genEmitted = <<>> /\ genDraws = 0

-----------------------------------------------------------------------------
(* src/lib/analysis.ts: getRoomColor, mockAnalyzeRooms *)

\* Array.prototype.find by label: <<def>> for the first element labelled
\* `type`, <<>> for undefined
Find(defs, type) ==
    LET found == {i \in 1..Len(defs) : defs[i].label = type}
    IN  IF found = {} THEN <<>>
        ELSE <<defs[CHOOSE i \in found : \A j \in found : i <= j]>>

\* A lookup in which the custom types come first
getRoomColorCustomFirst(type, customTypes) ==
    LET inCustom == Find(customTypes, type)
        match    == IF inCustom # <<>> THEN inCustom ELSE Find(baseRoomTypes, type)
    IN  IF match # <<>> THEN match[1].color ELSE DefaultColor

getRoomColor(type, customTypes) ==
    LET inBase == Find(baseRoomTypes, type)
        match  == IF inBase # <<>> THEN inBase ELSE Find(customTypes, type)
    IN  IF match # <<>> THEN match[1].color ELSE DefaultColor

\* A generator shared by all calls: seeded by the first, continued by the rest
seededRandomShared(seed) == IF rngValue = 0 THEN SeedValue(seed) ELSE rngValue

\* const rand = seededRandom(seed): the closure's initial `value`
seededRandom(seed) == SeedValue(seed)

\* Number(p.toFixed(2)): the multiple of 1/100 nearest to p, the larger of two
toFixed2(p) ==
    IF p.num = <<>> THEN p
    ELSE RatOf(RatFloor(RatAdd(RatMul(p, RatInt(100)), RatOf(1, 2))), 100)

Max(a, b) == IF a >= b THEN a ELSE b

\* biasMap[label] ?? 1
BiasOf(classification, label) ==
    LET biasMap == IF classification = "residential" THEN residentialBias
                   ELSE commercialBias
    IN  IF label \in DOMAIN biasMap THEN RatOf(biasMap[label], 100) ELSE RatInt(1)

\* The product without the cap
MockConfidenceUncapped(confidenceBase, bias) == RatMul(confidenceBase, bias)

\* Math.min(0.99, confidenceBase * bias)
MockConfidence(confidenceBase, bias) ==
    RatMin(RatOf(99, 100), RatMul(confidenceBase, bias))

\* The draw used as the offset, not scaled to the room left by the extent
MockOffsetUnscaled(r, extent) == r

\* const x = rand() * (1 - width)
MockOffset(r, extent) == RatMul(r, RatSub(RatInt(1), extent))

\* One callback of Array.from(...).map: the room at idx, drawn from the generator
\* at `value`, and the generator's value afterwards.  What the callback reads
\* more than once (selectedType, width, height) is handed to Room as an
\* argument, so that it is written once.
MockRoom(value, idx, pageIndex, classification, customTypes) ==
    LET definitions  == baseRoomTypes \o customTypes
        v1           == NextValue(value)
        typeIndex    == RatFloor(RatMul(Emit(v1), RatInt(Len(definitions))))
        Selected(i)  == IF i + 1 \in DOMAIN definitions
                        THEN definitions[i + 1] ELSE definitions[1]
        v2           == NextValue(v1)
        confidenceBase == RatAdd(RatOf(65, 100), RatMul(Emit(v2), RatOf(3, 10)))
        v3           == NextValue(v2)
        width        == RatAdd(RatOf(25, 100), RatMul(Emit(v3), RatOf(45, 100)))
        v4           == NextValue(v3)
        height       == RatAdd(RatOf(2, 10), RatMul(Emit(v4), RatOf(4, 10)))
        v5           == NextValue(v4)
        v6           == NextValue(v5)
        Room(selectedType, w, h) ==
            [ id         |-> <<"room", pageIndex, idx>>,
              label      |-> randomRoomNames[(idx % Len(randomRoomNames)) + 1],
              type       |-> selectedType.label,
              confidence |->
                  toFixed2(MockConfidence(confidenceBase,
                               BiasOf(classification, selectedType.label))),
              boundary   |-> [ x |-> MockOffset(Emit(v5), w),
                               y |-> MockOffset(Emit(v6), h),
                               width |-> w, height |-> h ],
              color      |-> getRoomColor(selectedType.label, customTypes) ]
    IN  [ room |-> Room(Selected(typeIndex), width, height), value |-> v6 ]

RECURSIVE MockRooms(_, _, _, _, _, _)
MockRooms(value, idx, roomCount, pageIndex, classification, customTypes) ==
    IF idx >= roomCount THEN [rooms |-> <<>>, value |-> value]
    ELSE LET Join(one, rest) ==
                 [rooms |-> <<one.room>> \o rest.rooms, value |-> rest.value]
             After(one) ==
                 Join(one, MockRooms(one.value, idx + 1, roomCount, pageIndex,
                                     classification, customTypes))
         IN  After(MockRoom(value, idx, pageIndex, classification, customTypes))

\* The count without the minimum of 3
MockRoomCountUnclamped(value) == RatFloor(RatMul(Emit(value), RatInt(6)))

\* Math.max(3, Math.floor(rand() * 6))
MockRoomCount(value) == Max(3, RatFloor(RatMul(Emit(value), RatInt(6))))

\* A call whose generator is seeded by the classification as well
MockRunClassSeeded(pageIndex, classification, customTypes) ==
    LET seed == pageIndex + (IF classification = "residential" THEN 1 ELSE 2)
        v1   == NextValue(seededRandom(seed))
    IN  MockRooms(v1, 0, MockRoomCount(v1), pageIndex, classification, customTypes)

\* The call: its result and the closure's value when it returns.
MockRun(pageIndex, classification, customTypes) ==
    LET v1 == NextValue(seededRandom(pageIndex + 1))
    IN  MockRooms(v1, 0, MockRoomCount(v1), pageIndex, classification, customTypes)

mockAnalyzeRooms(pageIndex, classification, customTypes) ==
    MockRun(pageIndex, classification, customTypes).rooms

-----------------------------------------------------------------------------
(* src/app/api/analyze/route.ts: labelToRoomType *)

UpperLetters == "ABCDEFGHIJKLMNOPQRSTUVWXYZ"
LowerLetters == "abcdefghijklmnopqrstuvwxyz"
Digits == "0123456789"

CharAt(s, i) == SubSeq(s, i, i)

\* The position of character c in s, 0 if it is not there
IndexOf(s, c) ==
    LET found == {i \in 1..Len(s) : CharAt(s, i) = c}
    IN  IF found = {} THEN 0 ELSE CHOOSE i \in found : \A j \in found : i <= j

LowerChar(c) ==
    LET i == IndexOf(UpperLetters, c) IN IF i = 0 THEN c ELSE CharAt(LowerLetters, i)
UpperChar(c) ==
    LET i == IndexOf(LowerLetters, c) IN IF i = 0 THEN c ELSE CharAt(UpperLetters, i)

\* \w and \s of the regular expression
IsWordChar(c) ==
    IndexOf(UpperLetters, c) > 0 \/ IndexOf(LowerLetters, c) > 0
        \/ IndexOf(Digits, c) > 0 \/ c = "_"
IsSpaceChar(c) == c \in {" ", "\t", "\n"}

\* The characters lo..hi of s, each in lower case
RECURSIVE LowerIn(_, _, _)
LowerIn(s, lo, hi) ==
    IF lo > hi THEN ""
    ELSE IF lo = hi THEN LowerChar(CharAt(s, lo))
    ELSE LET mid == (lo + hi) \div 2
         IN  LowerIn(s, lo, mid) \o LowerIn(s, mid + 1, hi)

toLowerCaseIdentity(s) == s

\* label.toLowerCase()
toLowerCase(s) == LowerIn(s, 1, Len(s))

\* normalized.includes(sub)
includes(s, sub) ==
    \E i \in 1..(Len(s) - Len(sub) + 1) : SubSeq(s, i, i + Len(sub) - 1) = sub

\* label.replace(/(^|\s)\w/g, (match) => match.toUpperCase()): a match is a word
\* character at the start or after a white-space character, together with that
\* white-space character, which upper-casing leaves as it is.
TitleAt(s, i) ==
    LET c == CharAt(s, i)
        starts == i = 1 \/ IsSpaceChar(CharAt(s, i - 1))
    IN  IF IsWordChar(c) /\ starts THEN UpperChar(c) ELSE c

\* The characters lo..hi of s after the replacement
RECURSIVE TitleIn(_, _, _)
TitleIn(s, lo, hi) ==
    IF lo > hi THEN ""
    ELSE IF lo = hi THEN TitleAt(s, lo)
    ELSE LET mid == (lo + hi) \div 2
         IN  TitleIn(s, lo, mid) \o TitleIn(s, mid + 1, hi)

TitleCase(s) == TitleIn(s, 1, Len(s))

labelToRoomType(label) ==
    LET normalized == toLowerCase(label)
    IN  IF includes(normalized, "living") THEN "Living Room"
        ELSE IF includes(normalized, "kitchen") THEN "Kitchen"
        ELSE IF includes(normalized, "bed") THEN "Bedroom"
        ELSE IF includes(normalized, "bath") \/ includes(normalized, "rest")
            THEN "Bathroom"
        ELSE IF includes(normalized, "storage") \/ includes(normalized, "closet")
            THEN "Storage"
        ELSE IF includes(normalized, "mechanical") \/ includes(normalized, "utility")
            THEN "Mechanical"
        ELSE IF includes(normalized, "office") \/ includes(normalized, "workspace")
            THEN "Workspace"
        ELSE IF includes(normalized, "corridor") \/ includes(normalized, "hall")
            THEN "Circulation"
        ELSE TitleCase(label)

-----------------------------------------------------------------------------
(* src/app/api/analyze/route.ts: maskToBoundary *)

\* A score as the program may receive it: a finite number of either sign, or an
\* infinity.
Finite(neg, abs) == [inf |-> FALSE, neg |-> neg, abs |-> abs]
Infinite(neg) == [inf |-> TRUE, neg |-> neg, abs |-> RatInt(0)]

MathMaxUnclamped(score, lo) == score

\* Math.max(score, lo) and Math.min(score, hi) for finite lo, hi > 0
MathMax(score, lo) ==
    IF score.neg THEN Finite(FALSE, lo)
    ELSE IF score.inf THEN score
    ELSE Finite(FALSE, RatMax(score.abs, lo))
MathMin(score, hi) ==
    IF score.neg THEN score
    ELSE IF score.inf THEN Finite(FALSE, hi)
    ELSE Finite(FALSE, RatMin(score.abs, hi))

\* Number(Math.min(Math.max(score, 0.1), 0.99).toFixed(2))
MaskConfidence(score) ==
    toFixed2(MathMin(MathMax(score, RatOf(1, 10)), RatOf(99, 100)).abs)

AlphaAtOpaque(png, x, y) == 255

\* data[(y * width + x) * 4 + 3]
AlphaAt(png, x, y) == png.data[(y * png.width + x) * 4 + 3]

\* The body of the inner loop at pixel (x, y)
Visit(png, x, y, box) ==
    IF AlphaAt(png, x, y) > 0
    THEN [ minX |-> IF x < box.minX THEN x ELSE box.minX,
           minY |-> IF y < box.minY THEN y ELSE box.minY,
           maxX |-> IF x > box.maxX THEN x ELSE box.maxX,
           maxY |-> IF y > box.maxY THEN y ELSE box.maxY ]
    ELSE box

\* The inner loop: the box [minX, minY, maxX, maxY] after the pixels lo..hi of
\* row y have been visited in order, the first half and then the second.
RECURSIVE ScanRow(_, _, _, _, _)
ScanRow(png, y, lo, hi, box) ==
    IF lo > hi THEN box
    ELSE IF lo = hi THEN Visit(png, lo, y, box)
    ELSE LET mid == (lo + hi) \div 2
         IN  ScanRow(png, y, mid + 1, hi, ScanRow(png, y, lo, mid, box))

\* The outer loop: the box after the rows lo..hi have been visited in order
RECURSIVE ScanRows(_, _, _, _)
ScanRows(png, lo, hi, box) ==
    IF lo > hi THEN box
    ELSE IF lo = hi THEN ScanRow(png, lo, 0, png.width - 1, box)
    ELSE LET mid == (lo + hi) \div 2
         IN  ScanRows(png, mid + 1, hi, ScanRows(png, lo, mid, box))

Scan(png) ==
    ScanRows(png, 0, png.height - 1,
        [minX |-> png.width, minY |-> png.height, maxX |-> -1, maxY |-> -1])

MaskExtentUnfloored(min, max, size) == RatOf(max - min, size)

\* Math.max((max - min) / size, 0.05)
MaskExtent(min, max, size) == RatMax(RatOf(max - min, size), RatOf(5, 100))

maskToBoundary(maskBuffer, label, score, pageIndex, idx, customTypes) ==
    IF ~maskBuffer.ok THEN <<>>           \* PNG.sync.read throws: caught, null
    ELSE LET box == Scan(maskBuffer)
             roomType == labelToRoomType(label)
         IN  IF box.maxX = -1 \/ box.maxY = -1 THEN <<>>
             ELSE << [ id         |-> <<"hf-room", pageIndex, idx>>,
                       label      |-> roomType,
                       type       |-> roomType,
                       confidence |-> MaskConfidence(score),
                       boundary   |->
                           [ x      |-> RatOf(box.minX, maskBuffer.width),
                             y      |-> RatOf(box.minY, maskBuffer.height),
                             width  |-> MaskExtent(box.minX, box.maxX,
                                                   maskBuffer.width),
                             height |-> MaskExtent(box.minY, box.maxY,
                                                   maskBuffer.height) ],
                       color      |-> getRoomColor(roomType, customTypes) ] >>

-----------------------------------------------------------------------------
(* The extractor, called once on an argument list *)

MaxMaskWidth == 3
MaxMaskHeight == 3
MaxStripLength == 21
MaxLabelTokens == 2
MaxScoreStep == 400

Pixels(w, h) == (0..(w - 1)) \X (0..(h - 1))

\* The pixels of the rectangle with corners p and q
Rectangle(p, q) ==
    { r \in (0..Max(p[1], q[1])) \X (0..Max(p[2], q[2])) :
        /\ r[1] >= (IF p[1] < q[1] THEN p[1] ELSE q[1])
        /\ r[2] >= (IF p[2] < q[2] THEN p[2] ELSE q[2]) }

\* Foregrounds of a w x h mask: none, one or two pixels, a filled rectangle
Foregrounds(w, h) ==
    {{}} \cup { {p, q} : p, q \in Pixels(w, h) }
         \cup { Rectangle(p, q) : p, q \in Pixels(w, h) }

\* A buffer of `length` bytes that decodes to a w x h image: only the alpha
\* bytes of `data`, the ones the scan reads, are kept.  A foreground pixel is
\* opaque or nearly transparent.
Png(w, h, foreground) ==
    [ ok |-> TRUE, length |-> 8 + 4 * w * h, width |-> w, height |-> h,
      data |-> [ i \in { 4 * k + 3 : k \in 0..(w * h - 1) } |->
                   LET k == (i - 3) \div 4
                       x == k % w
                       y == k \div w
                   IN  IF <<x, y>> \in foreground
                       THEN (IF (x + y) % 2 = 0 THEN 255 ELSE 1)
                       ELSE 0 ] ]

\* A buffer PNG.sync.read rejects
CorruptBuffer == [ok |-> FALSE, length |-> 1, width |-> 0, height |-> 0, data |-> <<>>]

\* A buffer of no bytes
EmptyBuffer == [ok |-> FALSE, length |-> 0, width |-> 0, height |-> 0, data |-> <<>>]

\* Small masks with every foreground above, and masks of one row or one column
\* with one foreground pixel
MaskBuffers ==
    {CorruptBuffer}
    \cup UNION { { Png(w, h, f) : f \in Foregrounds(w, h) } :
                 w \in 1..MaxMaskWidth, h \in 1..MaxMaskHeight }
    \cup UNION { { Png(n, 1, {<<k, 0>>}) : k \in 0..(n - 1) } : n \in 1..MaxStripLength }
    \cup UNION { { Png(1, n, {<<0, k>>}) : k \in 0..(n - 1) } : n \in 1..MaxStripLength }

\* Pieces of labels: a keyword of each rule, in mixed case, and other text
LabelTokens ==
    { "living", "Kitchen", "BED", "bath", "Storage", "mechanical", "Office",
      "corridor", "Server", " Room", " Area", "kit", "chen", "\t-lobby" }

\* Labels with the second keyword of the rules that have two
OtherKeywordLabels ==
    { "Restroom", "Walk-in closet", "UTILITY", "Workspace 2", "hallway" }

RECURSIVE LabelsUpTo(_)
LabelsUpTo(n) ==
    IF n = 0 THEN {""}
    ELSE LET shorter == LabelsUpTo(n - 1)
         IN  shorter \cup { l \o t : l \in shorter, t \in LabelTokens }

MaskLabels == LabelsUpTo(MaxLabelTokens) \cup OtherKeywordLabels

\* Scores from -0.2 in steps of 0.005, and the infinities
MaskScores ==
    { Finite(k < 40, RatOf(IF k < 40 THEN 40 - k ELSE k - 40, 200)) :
        k \in 0..MaxScoreStep }
    \cup {Infinite(TRUE), Infinite(FALSE)}

\* segment.label ?? `Region ${idx + 1}`, segment.score ?? 0.5
DefaultLabel(idx) == "Region " \o CharAt(Digits, idx + 2)
DefaultScore == Finite(FALSE, RatOf(1, 2))

MaskArguments(maskBuffer, label, score, pageIndex, idx, customTypes) ==
    [ maskBuffer |-> maskBuffer, label |-> label, score |-> score,
      pageIndex |-> pageIndex, idx |-> idx, customTypes |-> customTypes ]

\* Custom types in which a label occurs twice, and a base label once
RepeatedTypes ==
    << [label |-> "Server Room", color |-> "#111111"],
       [label |-> "Bedroom",     color |-> "#222222"],
       [label |-> "Server Room", color |-> "#333333"] >>

\* One argument varies over its whole set while the others take a few values.
MaskArgumentLists ==
    { MaskArguments(b, DefaultLabel(0), DefaultScore, 0, 0, <<>>) :
        b \in MaskBuffers }
    \cup { MaskArguments(Png(2, 2, {<<1, 0>>}), l, DefaultScore, 1, 0, ct) :
             l \in MaskLabels, ct \in CustomTypeLists \cup {RepeatedTypes} }
    \cup { MaskArguments(Png(1, 1, {<<0, 0>>}), DefaultLabel(0), sc, 0, 0, <<>>) :
             sc \in MaskScores }

NoArguments == MaskArguments(CorruptBuffer, "", DefaultScore, 0, 0, <<>>)

MaskIdle == maskArgs = NoArguments /\ maskPc = "idle" /\ maskResult = <<>>

MaskCall ==
    /\ maskPc = "call"
    /\ maskResult' = maskToBoundary(maskArgs.maskBuffer, maskArgs.label,
                                    maskArgs.score, maskArgs.pageIndex,
                                    maskArgs.idx, maskArgs.customTypes)
    /\ maskPc' = "done"
    /\ UNCHANGED <<maskArgs, mockVars, apiVars, svcVars, genVars, uiVars>>

-----------------------------------------------------------------------------
(* src/app/api/analyze/route.ts: POST, analyzePageWithHf, toPngBuffer *)

Event(kind, k) == [kind |-> kind, page |-> k]

\* thumbnailDataUrl.split(",")[1], "" when there is no such part
Base64Part(thumbnailDataUrl) ==
    LET i    == IndexOf(thumbnailDataUrl, ",")
        rest == SubSeq(thumbnailDataUrl, i + 1, Len(thumbnailDataUrl))
        j    == IndexOf(rest, ",")
    IN  IF i = 0 THEN ""
        ELSE IF j = 0 THEN rest ELSE SubSeq(rest, 1, j - 1)

\* The decoding of base64 is not modelled: a segment's mask is <<>> when
\* absent or empty, and otherwise <<the buffer it decodes to>>.
toPngBuffer(mask) == mask

\* A loop over the segments that ends at the first segment without a detection
RECURSIVE DetectionsFromAborting(_, _, _, _)
DetectionsFromAborting(segments, idx, pageIndex, customTypes) ==
    IF idx >= Len(segments) THEN <<>>
    ELSE LET segment    == segments[idx + 1]
             maskBuffer == toPngBuffer(segment.mask)
             detection  ==
                 IF maskBuffer = <<>> THEN <<>>
                 ELSE IF maskBuffer[1].length = 0 THEN <<>>
                 ELSE maskToBoundary(
                        maskBuffer[1],
                        IF segment.label = <<>> THEN DefaultLabel(idx)
                        ELSE segment.label[1],
                        IF segment.score = <<>> THEN DefaultScore
                        ELSE segment.score[1],
                        pageIndex, idx, customTypes)
         IN  IF detection = <<>> THEN <<>>
             ELSE detection
                  \o DetectionsFromAborting(segments, idx + 1, pageIndex, customTypes)

\* The body of the loop over the segments, from idx on
RECURSIVE DetectionsFrom(_, _, _, _)
DetectionsFrom(segments, idx, pageIndex, customTypes) ==
    IF idx >= Len(segments) THEN <<>>
    ELSE LET segment    == segments[idx + 1]
             maskBuffer == toPngBuffer(segment.mask)
             detection  ==
                 IF maskBuffer = <<>> THEN <<>>
                 ELSE IF maskBuffer[1].length = 0 THEN <<>>
                 ELSE maskToBoundary(
                        maskBuffer[1],
                        IF segment.label = <<>> THEN DefaultLabel(idx)
                        ELSE segment.label[1],
                        IF segment.score = <<>> THEN DefaultScore
                        ELSE segment.score[1],
                        pageIndex, idx, customTypes)
         IN  detection \o DetectionsFrom(segments, idx + 1, pageIndex, customTypes)

\* analyzePageWithHf after `await inference.imageSegmentation(...)` returned
AnalyzeAfterRemote(result, pageIndex, customTypes) ==
    IF ~result.array THEN <<>>
    ELSE DetectionsFrom(result.segments, 0, pageIndex, customTypes)

\* rooms[id] = list
SetRooms(rooms, id, list) ==
    [ key \in DOMAIN rooms \cup {id} |-> IF key = id THEN list ELSE rooms[key] ]

\* body.classification ?? "residential"
BodyClassification ==
    IF apiRequest.classification = <<>> THEN "residential"
    ELSE apiRequest.classification[1]

\* body.customRoomTypes ?? []
BodyCustomTypes ==
    IF apiRequest.customRoomTypes = <<>> THEN <<>>
    ELSE apiRequest.customRoomTypes[1]

\* A JSON value given as a page index (page.index, body.pageIndex): a
\* number, finite or not (1e999 is read as Infinity), or a value of another
\* type
NumberValue(n) == [type |-> "number", finite |-> TRUE, value |-> n]
InfinityValue == [type |-> "number", finite |-> FALSE, value |-> 1]
StringValue == [type |-> "string", finite |-> FALSE, value |-> 0]
UndefinedValue == [type |-> "undefined", finite |-> FALSE, value |-> 0]

\* mockAnalyzeRooms for a page index that is a number or is left out.  For
\* Infinity and for undefined the seed pageIndex + 1 is Infinity or NaN and
\* seed % 2147483647 is NaN; `value <= 0` is false, every rand() is NaN,
\* Math.max(3, Math.floor(NaN)) is NaN, and Array.from({ length: NaN }) has
\* length 0: the result is the empty list.
mockAnalyzeRoomsOf(index, classification, customTypes) ==
    IF index.type = "number" /\ index.finite
    THEN mockAnalyzeRooms(index.value, classification, customTypes)
    ELSE <<>>

PageMock(page) == mockAnalyzeRoomsOf(page.index, BodyClassification, BodyCustomTypes)

\* detections.length ? detections : mockAnalyzeRooms(...)
PageRooms(detections, page) ==
    IF Len(detections) > 0 THEN detections ELSE PageMock(page)

PageCatchEmpty(page) == <<>>

\* The catch block of the loop over the pages
PageCatch(page) == PageMock(page)

Json(status, rooms, fallback) ==
    [status |-> status, rooms |-> rooms, fallback |-> fallback]
ErrorJson(status) == Json(status, <<>>, FALSE)

\* The loop over the pages from position k on, the rooms object being `rooms`,
\* up to the next remote call or the response: a page whose thumbnail has no
\* base64 part gets [] without a remote call.
RECURSIVE RunFrom(_, _, _)
RunFrom(k, rooms, log) ==
    LET pages == apiRequest.pages
    IN  IF k > Len(pages)
        THEN [ pc |-> "responded", idx |-> k, rooms |-> rooms, log |-> log,
               response |-> <<Json(200, rooms, FALSE)>> ]
        ELSE IF Base64Part(pages[k].thumbnail) = ""
        THEN RunFrom(k + 1,
                     SetRooms(rooms, pages[k].id, PageRooms(<<>>, pages[k])),
                     log \o <<Event("mock", k), Event("store", k)>>)
        ELSE [ pc |-> "awaiting", idx |-> k, rooms |-> rooms,
               log |-> Append(log, Event("call", k)), response |-> <<>> ]

\* body.pages.forEach(...) of the branch without a token
RECURSIVE MockAllFrom(_, _, _)
MockAllFrom(k, rooms, log) ==
    LET pages == apiRequest.pages
    IN  IF k > Len(pages) THEN [rooms |-> rooms, log |-> log]
        ELSE MockAllFrom(k + 1, SetRooms(rooms, pages[k].id, PageMock(pages[k])),
                         log \o <<Event("mock", k), Event("store", k)>>)

Continue(run) ==
    /\ apiPc' = run.pc
    /\ apiIdx' = run.idx
    /\ apiRooms' = run.rooms
    /\ apiLog' = run.log
    /\ apiResponse' = run.response

\* POST up to its first remote call, or to its response
ApiStart ==
    /\ apiPc = "start"
    /\ IF ~apiRequest.parsed                     \* request.json() rejects
       THEN /\ apiPc' = "responded"
            /\ apiResponse' = <<ErrorJson(500)>>
            /\ UNCHANGED <<apiIdx, apiRooms, apiLog>>
       ELSE IF Len(apiRequest.pages) = 0
       THEN /\ apiPc' = "responded"
            /\ apiResponse' = <<ErrorJson(400)>>
            /\ UNCHANGED <<apiIdx, apiRooms, apiLog>>
       ELSE IF ~apiToken
       THEN LET all == MockAllFrom(1, apiRooms, apiLog)
            IN  /\ apiPc' = "responded"
                /\ apiRooms' = all.rooms
                /\ apiLog' = all.log
                /\ apiResponse' = <<Json(200, all.rooms, TRUE)>>
                /\ UNCHANGED apiIdx
       ELSE Continue(RunFrom(1, apiRooms, apiLog))
    /\ UNCHANGED <<apiToken, apiRequest, apiRemote, mockVars, maskVars, svcVars, genVars, uiVars>>

\* The remote call of the page at apiIdx resolves with `result`
ApiRemoteReturns(result) ==
    /\ apiPc = "awaiting"
    /\ LET page       == apiRequest.pages[apiIdx]
           detections == AnalyzeAfterRemote(result, page.index, BodyCustomTypes)
       IN  Continue(RunFrom(apiIdx + 1,
                SetRooms(apiRooms, page.id, PageRooms(detections, page)),
                apiLog \o <<Event("result", apiIdx)>>
                       \o (IF Len(detections) > 0 THEN <<>>
                           ELSE <<Event("mock", apiIdx)>>)
                       \o <<Event("store", apiIdx)>>))
    /\ apiRemote' = Append(apiRemote, [page |-> apiIdx, result |-> result])
    /\ UNCHANGED <<apiToken, apiRequest, mockVars, maskVars, svcVars, genVars, uiVars>>

\* A handler that calls the remote service again when the call rejects
ApiRemoteThrowsRetried ==
    /\ apiPc = "awaiting"
    /\ apiLog' = apiLog \o <<Event("throw", apiIdx), Event("call", apiIdx)>>
    /\ UNCHANGED <<apiToken, apiRequest, apiPc, apiIdx, apiRooms, apiResponse,
                   apiRemote, mockVars, maskVars, svcVars, genVars, uiVars>>

\* The remote call of the page at apiIdx rejects
ApiRemoteThrows ==
    /\ apiPc = "awaiting"
    /\ LET page == apiRequest.pages[apiIdx]
       IN  Continue(RunFrom(apiIdx + 1,
                SetRooms(apiRooms, page.id, PageCatch(page)),
                apiLog \o <<Event("throw", apiIdx), Event("mock", apiIdx),
                           Event("store", apiIdx)>>))
    /\ UNCHANGED <<apiToken, apiRequest, apiRemote, mockVars, maskVars, svcVars, genVars, uiVars>>

-----------------------------------------------------------------------------
(* The single-page analysis route: POST *)


\* typeof v === "number" && Number.isFinite(v) && v >= 0
ValidPageIndex(v) == v.type = "number" /\ v.finite /\ v.value >= 0

\* c === "residential" || c === "commercial", c being <<>> when left out
ValidClassification(c) == c # <<>> /\ c[1] \in {"residential", "commercial"}

\* label.trim().length > 0
TrimmedLength(label) ==
    Cardinality({i \in 1..Len(label) : ~IsSpaceChar(CharAt(label, i))})

\* The predicate of the filter: label and color are <<>> when not strings
IsRoomTypeDefinition(type) ==
    /\ type.label # <<>>
    /\ TrimmedLength(type.label[1]) > 0
    /\ type.color # <<>>

\* body.customRoomTypes?.filter(...) ?? []
RECURSIVE FilterRoomTypes(_)
FilterRoomTypes(types) ==
    IF types = <<>> THEN <<>>
    ELSE (IF IsRoomTypeDefinition(Head(types))
          THEN <<[label |-> Head(types).label[1], color |-> Head(types).color[1]]>>
          ELSE <<>>) \o FilterRoomTypes(Tail(types))

SvcCustomRoomTypes ==
    IF svcRequest.customRoomTypes = <<>> THEN <<>>
    ELSE FilterRoomTypes(svcRequest.customRoomTypes[1])

SvcJson(status, rooms, message) ==
    [status |-> status, rooms |-> rooms, message |-> message]

\* The handler: it awaits nothing but the body
SvcPost ==
    /\ svcPc = "start"
    /\ svcPc' = "responded"
    /\ IF ~svcRequest.parsed                     \* request.json() rejects
       THEN /\ svcResponse' =
                 <<SvcJson(500, <<>>, "Unable to process analysis request")>>
            /\ UNCHANGED svcLog
       ELSE IF ~ValidPageIndex(svcRequest.pageIndex)
       THEN /\ svcResponse' =
                 <<SvcJson(400, <<>>, "pageIndex must be a positive number")>>
            /\ UNCHANGED svcLog
       ELSE IF ~ValidClassification(svcRequest.classification)
       THEN /\ svcResponse' =
                 <<SvcJson(400, <<>>,
                           "classification must be residential or commercial")>>
            /\ UNCHANGED svcLog
       ELSE LET pageIndex      == svcRequest.pageIndex.value
                classification == svcRequest.classification[1]
                rooms == mockAnalyzeRooms(pageIndex, classification,
                                          SvcCustomRoomTypes)
            IN  /\ svcResponse' = <<SvcJson(200, rooms, "")>>
                /\ svcLog' = Append(svcLog,
                      [ pageIndex      |-> pageIndex,
                        classification |-> classification,
                        customTypes    |-> SvcCustomRoomTypes ])
    /\ UNCHANGED <<svcRequest, mockVars, maskVars, apiVars, genVars, uiVars>>

\* A body that is not JSON
UnparsedSvcRequest ==
    [ parsed |-> FALSE, pageIndex |-> UndefinedValue, classification |-> <<>>,
      customRoomTypes |-> <<>> ]

SvcIdle ==
    /\ svcRequest = UnparsedSvcRequest /\ svcPc = "idle"
    /\ svcResponse = <<>> /\ svcLog = <<>>

-----------------------------------------------------------------------------
(* src/app/page.tsx: Home *)

\* The state the handlers below read and write is modelled; the log panel
\* (logEntries), the scale inputs and the canvas are not, and the custom room
\* types stay as constructed ([]).  A state update is taken to be rendered
\* before the next event is handled, so that a handler sees the current state.
\* The fallback of handleProcess calls mockAnalyzeRooms of src/lib/analysis.ts.

MaxRuns == 2
MaxLoads == 2
MaxManual == 1

MaxDocPages == 2

uiCustomRoomTypes == <<>>

\* The results of mockAnalyzeRooms for the pages of a document, computed once
MockedPages ==
    [ n \in 1..MaxDocPages, c \in Classifications |->
        mockAnalyzeRooms(n, c, uiCustomRoomTypes) ]

\* mockAnalyzeRooms, as the page component and its server call it
PageMockRooms(pageIndex, classification, customTypes) ==
    IF /\ <<pageIndex, classification>> \in DOMAIN MockedPages
       /\ customTypes = uiCustomRoomTypes
    THEN MockedPages[pageIndex, classification]
    ELSE mockAnalyzeRooms(pageIndex, classification, customTypes)

IsSelected(page) == page.selected

\* const selectedCount = pages.filter((page) => page.selected).length
selectedCount == Len(SelectSeq(uiPages, IsSelected))

PageIds == {uiPages[i].id : i \in 1..Len(uiPages)}

\* const currentPage = pages.find((page) => page.id === selectedPageId)
currentPage ==
    LET found == {i \in 1..Len(uiPages) : <<uiPages[i].id>> = uiSelectedPageId}
    IN  IF found = {} THEN <<>>
        ELSE <<uiPages[CHOOSE i \in found : \A j \in found : i <= j]>>

\* room.manual, undefined being falsy
IsManual(room) == "manual" \in DOMAIN room /\ room.manual

\* The rooms on the pages that carry a manual override: page id and room id
ManualRooms ==
    UNION { { <<uiPages[i].id, uiPages[i].rooms[k].id>> :
                k \in {n \in 1..Len(uiPages[i].rooms) :
                          IsManual(uiPages[i].rooms[n])} } :
            i \in 1..Len(uiPages) }

\* onClick={() => setClassification(option)}
setClassification(option) ==
    /\ uiClassification' = option
    /\ UNCHANGED <<uiPages, uiSelectedPageId, uiProcessing, uiAnalysisError,
                   uiLoadingPages, uiUploadError, uiFileName, uiRuns, uiLoads>>
    /\ UNCHANGED <<mockVars, maskVars, apiVars, svcVars, genVars>>

resetProject ==
    /\ uiPages' = <<>>
    /\ uiSelectedPageId' = <<>>
    /\ uiFileName' = <<>>
    /\ uiUploadError' = <<>>
    /\ uiProcessing' = FALSE
    /\ UNCHANGED <<uiClassification, uiAnalysisError, uiLoadingPages, uiRuns,
                   uiLoads>>
    /\ UNCHANGED <<mockVars, maskVars, apiVars, svcVars, genVars>>

\* handleFileChange up to its first await, for a file with a name: one that
\* does not end in .pdf is refused
handleFileChange(file) ==
    /\ Len(uiLoads) < MaxLoads
    /\ IF ~file.pdf
       THEN /\ uiUploadError' =
                 <<"Only multi-page PDF files are supported in this demo.">>
            /\ UNCHANGED <<uiPages, uiLoadingPages, uiFileName, uiLoads>>
       ELSE /\ uiUploadError' = <<>>
            /\ uiLoadingPages' = TRUE
            /\ uiFileName' = <<file.name>>
            /\ uiPages' = <<>>
            /\ uiLoads' = Append(uiLoads, [pc |-> "reading", file |-> file])
    /\ UNCHANGED <<uiSelectedPageId, uiProcessing, uiClassification,
                   uiAnalysisError, uiRuns>>
    /\ UNCHANGED <<mockVars, maskVars, apiVars, svcVars, genVars>>

\* canvas.toDataURL("image/png")
Thumbnail == "data:image/png;base64,iVBORw0KGgo="

\* The element pushed for page number pageIndex
PagePreview(pageIndex) ==
    [ id |-> "page-" \o CharAt(Digits, pageIndex + 1), index |-> pageIndex,
      thumbnail |-> Thumbnail, status |-> "idle", selected |-> pageIndex = 1,
      rooms |-> <<>> ]

\* A call of handleFileChange that returned
LoadDone == [pc |-> "done", file |-> [name |-> "", pdf |-> TRUE,
                                      readable |-> FALSE, numPages |-> 0]]

\* The rest of handleFileChange, the document having been read and rendered,
\* or not
FileRead(l) ==
    /\ l \in 1..Len(uiLoads)
    /\ uiLoads[l].pc = "reading"
    /\ uiLoads' = [uiLoads EXCEPT ![l] = LoadDone]
    /\ IF uiLoads[l].file.readable
       THEN LET nextPages == [n \in 1..uiLoads[l].file.numPages |-> PagePreview(n)]
            IN  /\ uiPages' = nextPages
                /\ uiSelectedPageId' = <<nextPages[1].id>>
                /\ UNCHANGED uiUploadError
       ELSE /\ uiUploadError' =
                 <<"We could not read that PDF. Please try another file.">>
            /\ UNCHANGED <<uiPages, uiSelectedPageId>>
    /\ uiLoadingPages' = FALSE
    /\ UNCHANGED <<uiProcessing, uiClassification, uiAnalysisError, uiFileName,
                   uiRuns>>
    /\ UNCHANGED <<mockVars, maskVars, apiVars, svcVars, genVars>>

\* pages.map of what the request carries
Submitted(page) == [id |-> page.id, index |-> page.index, thumbnail |-> page.thumbnail]

\* handleProcess up to its first await.  Between it and the answer to the
\* request the call changes no state that is modelled.
handleProcess ==
    /\ Len(uiRuns) < MaxRuns
    /\ selectedCount # 0 /\ ~uiProcessing
    /\ LET pagesToProcess == SelectSeq(uiPages, IsSelected)
       IN  /\ Len(pagesToProcess) # 0
           /\ uiRuns' = Append(uiRuns,
                 [ pc             |-> "pending",
                   pagesToProcess |-> [i \in 1..Len(pagesToProcess) |->
                                         Submitted(pagesToProcess[i])],
                   classification |-> uiClassification,
                   customRoomTypes |-> uiCustomRoomTypes ])
    /\ uiProcessing' = TRUE
    /\ uiAnalysisError' = <<>>
    /\ uiPages' = [i \in 1..Len(uiPages) |->
                     IF uiPages[i].selected
                     THEN [uiPages[i] EXCEPT !.status = "processing"]
                     ELSE uiPages[i]]
    /\ UNCHANGED <<uiSelectedPageId, uiClassification, uiLoadingPages,
                   uiUploadError, uiFileName, uiLoads>>
    /\ UNCHANGED <<mockVars, maskVars, apiVars, svcVars, genVars>>

\* A call of handleProcess that returned: nothing refers to what it captured
RunDone ==
    [ pc |-> "done", pagesToProcess |-> <<>>, classification |-> "residential",
      customRoomTypes |-> <<>> ]

\* data.rooms?.[page.id] ?? []
DetectedRooms(data, page) ==
    IF page.id \in DOMAIN data.rooms THEN data.rooms[page.id] ELSE <<>>

\* The setPages of the try block
PagesDetected(r, data) ==
    [i \in 1..Len(uiPages) |->
        IF ~uiPages[i].selected THEN uiPages[i]
        ELSE [uiPages[i] EXCEPT !.status = "processed",
                                !.rooms = DetectedRooms(data, uiPages[i])]]

\* The setPages of the catch block
PagesMocked(r) ==
    [i \in 1..Len(uiPages) |->
        IF ~uiPages[i].selected THEN uiPages[i]
        ELSE [uiPages[i] EXCEPT
                !.status = "processed",
                !.rooms = PageMockRooms(uiPages[i].index,
                                        uiRuns[r].classification,
                                        uiRuns[r].customRoomTypes)]]

\* The timers of run r have elapsed and its request is answered with a 2xx
\* whose body is `data`
RunResolves(r, data) ==
    /\ r \in 1..Len(uiRuns)
    /\ uiRuns[r].pc = "pending"
    /\ uiRuns' = [uiRuns EXCEPT ![r] = RunDone]
    /\ uiPages' = PagesDetected(r, data)
    /\ uiProcessing' = FALSE
    /\ UNCHANGED <<uiSelectedPageId, uiClassification, uiAnalysisError,
                   uiLoadingPages, uiUploadError, uiFileName, uiLoads>>
    /\ UNCHANGED <<mockVars, maskVars, apiVars, svcVars, genVars>>

\* The timers of run r have elapsed, and fetch rejects or the response is not
\* ok: the catch block, with the message of the error
RunFails(r, message) ==
    /\ r \in 1..Len(uiRuns)
    /\ uiRuns[r].pc = "pending"
    /\ uiRuns' = [uiRuns EXCEPT ![r] = RunDone]
    /\ uiAnalysisError' = <<message>>
    /\ uiPages' = PagesMocked(r)
    /\ uiProcessing' = FALSE
    /\ UNCHANGED <<uiSelectedPageId, uiClassification, uiLoadingPages,
                   uiUploadError, uiFileName, uiLoads>>
    /\ UNCHANGED <<mockVars, maskVars, apiVars, svcVars, genVars>>

togglePageSelection(pageId) ==
    /\ uiPages' = [i \in 1..Len(uiPages) |->
                     IF uiPages[i].id = pageId
                     THEN [uiPages[i] EXCEPT !.selected = ~uiPages[i].selected]
                     ELSE uiPages[i]]
    /\ uiSelectedPageId' = <<pageId>>
    /\ UNCHANGED <<uiProcessing, uiClassification, uiAnalysisError,
                   uiLoadingPages, uiUploadError, uiFileName, uiRuns, uiLoads>>
    /\ UNCHANGED <<mockVars, maskVars, apiVars, svcVars, genVars>>

\* { ...room, ...data, manual: true }
Overridden(room, data) ==
    [ f \in DOMAIN room \cup DOMAIN data \cup {"manual"} |->
        IF f = "manual" THEN TRUE
        ELSE IF f \in DOMAIN data THEN data[f] ELSE room[f] ]

\* An update that marks every room of the page
RoomsUpdatedAll(rooms, roomId, data) ==
    [k \in 1..Len(rooms) |-> Overridden(rooms[k], data)]

\* page.rooms.map(...)
RoomsUpdated(rooms, roomId, data) ==
    [k \in 1..Len(rooms) |->
        IF rooms[k].id = roomId THEN Overridden(rooms[k], data) ELSE rooms[k]]

\* updateRoom, with at most MaxManual rooms overridden at a time
updateRoom(roomId, data) ==
    /\ Cardinality(ManualRooms \cup {<<uiSelectedPageId[1], roomId>>}) <= MaxManual
    /\ uiPages' = [i \in 1..Len(uiPages) |->
                     IF <<uiPages[i].id>> # uiSelectedPageId THEN uiPages[i]
                     ELSE [uiPages[i] EXCEPT
                             !.rooms = RoomsUpdated(uiPages[i].rooms, roomId, data)]]
    /\ UNCHANGED <<uiSelectedPageId, uiProcessing, uiClassification,
                   uiAnalysisError, uiLoadingPages, uiUploadError, uiFileName,
                   uiRuns, uiLoads>>
    /\ UNCHANGED <<mockVars, maskVars, apiVars, svcVars, genVars>>

\* The state after construction
UiIdle ==
    /\ uiPages = <<>> /\ uiSelectedPageId = <<>> /\ uiProcessing = FALSE
    /\ uiClassification = "residential" /\ uiAnalysisError = <<>>
    /\ uiLoadingPages = FALSE /\ uiUploadError = <<>> /\ uiFileName = <<>>
    /\ uiRuns = <<>> /\ uiLoads = <<>>

-----------------------------------------------------------------------------
(* The mock detector, called repeatedly *)

MaxCalls == 2
MaxPageStep == 2
PageStride == 106500

\* Page indexes far enough apart for the first draw to give every room count.
MockPages == {k * PageStride : k \in 0..MaxPageStep}

MockCall(pageIndex, classification, customTypes) ==
    /\ Len(mockCalls) < MaxCalls
    /\ LET run == MockRun(pageIndex, classification, customTypes)
       IN  /\ mockCalls' = Append(mockCalls,
                 [ pageIndex      |-> pageIndex,
                   classification |-> classification,
                   customTypes    |-> customTypes,
                   rooms          |-> run.rooms ])
           /\ rngValue' = run.value
    /\ UNCHANGED <<maskVars, apiVars, svcVars, genVars, uiVars>>

MockIdle == mockCalls = <<>> /\ rngValue = 0

\* A body that is not JSON
UnparsedRequest ==
    [ parsed |-> FALSE, pages |-> <<>>, classification |-> <<>>,
      customRoomTypes |-> <<>> ]

ApiIdle ==
    /\ apiToken = FALSE /\ apiRequest = UnparsedRequest /\ apiPc = "idle"
    /\ apiIdx = 0 /\ apiRooms = <<>> /\ apiResponse = <<>> /\ apiLog = <<>>
    /\ apiRemote = <<>>


MockInit == MockIdle /\ MaskIdle /\ ApiIdle /\ SvcIdle /\ GenIdle /\ UiIdle

MockNext ==
    \E p \in MockPages, c \in Classifications, ct \in CustomTypeLists :
        MockCall(p, c, ct)

SpecMock == MockInit /\ [][MockNext]_vars

\* The page indexes a caller may hand over: those above, a negative one, and
\* the values of a page of an unchecked request whose index is 1e999 or left
\* out
MockIndexValues ==
    { NumberValue(p) : p \in MockPages \cup {-1} }
    \cup {InfinityValue, UndefinedValue}

\* A call of mockAnalyzeRooms with such an index; what is recorded is the
\* arguments and the list returned
MockCallOf(index, classification, customTypes) ==
    /\ Len(mockCalls) < MaxCalls
    /\ mockCalls' = Append(mockCalls,
          [ pageIndex      |-> index,
            classification |-> classification,
            customTypes    |-> customTypes,
            rooms          |-> mockAnalyzeRoomsOf(index, classification,
                                                  customTypes) ])
    /\ UNCHANGED <<rngValue, maskVars, apiVars, svcVars, genVars, uiVars>>

MockAnyNext ==
    \E v \in MockIndexValues, c \in Classifications, ct \in CustomTypeLists :
        MockCallOf(v, c, ct)

SpecMockAny == MockInit /\ [][MockAnyNext]_vars

MaskInit ==
    /\ maskArgs \in MaskArgumentLists
    /\ maskPc = "call"
    /\ maskResult = <<>>
    /\ MockIdle /\ ApiIdle /\ SvcIdle /\ GenIdle /\ UiIdle

MaskNext == MaskCall

SpecMask == MaskInit /\ [][MaskNext]_vars

-----------------------------------------------------------------------------
(* A generator, seeded once and called repeatedly *)

\* Seeds: the first ones, the multiplier, the quotient of the modulus by it,
\* the modulus, its neighbours and its half; and the seeds 0 and -1 that
\* page indexes below 0 give
GenSeeds ==
    { -1, 0, 1, 2, 3, Multiplier, SchrageQ, SchrageQ + 1, Modulus \div 2,
      Modulus - 2, Modulus - 1, Modulus }

GenInit ==
    /\ genPc = "seed"
    /\ genSeed \in GenSeeds
    /\ genValue = 1 /\ genEmitted = <<>> /\ genDraws = 0
    /\ MockIdle /\ MaskIdle /\ ApiIdle /\ SvcIdle /\ UiIdle

GenNext == GenMake \/ GenDraw

SpecGen == GenInit /\ [][GenNext]_vars

-----------------------------------------------------------------------------
(* A request to /api/analyze *)

MaxApiPages == 2

\* The page the client sends for page number n of the document
ApiPage(n, thumbnail) ==
    [ id |-> "page-" \o CharAt(Digits, n + 1), index |-> NumberValue(n),
      thumbnail |-> thumbnail ]

Thumbnails == {"data:image/png;base64,iVBORw0KGgo=", "about:blank"}

\* The selected pages of a document of MaxApiPages pages, in document order
RECURSIVE PageListsFrom(_)
PageListsFrom(n) ==
    IF n > MaxApiPages THEN {<<>>}
    ELSE LET rest == PageListsFrom(n + 1)
         IN  rest \cup { <<ApiPage(n, t)>> \o l : t \in Thumbnails, l \in rest }

\* A JSON body; classification and customRoomTypes are <<>> when left out
ApiRequestOf(pages, classification, customRoomTypes) ==
    [ parsed |-> TRUE, pages |-> pages, classification |-> classification,
      customRoomTypes |-> customRoomTypes ]

\* A page with a negative index, as a caller other than the client may send
NegativePage ==
    [ id |-> "page--1", index |-> NumberValue(-1),
      thumbnail |-> "data:image/png;base64,iVBORw0KGgo=" ]

\* A page whose index is 1e999 in the body, and one whose index is left out
InfinitePage ==
    [ id |-> "page-Infinity", index |-> InfinityValue,
      thumbnail |-> "data:image/png;base64,iVBORw0KGgo=" ]
UnnumberedPage ==
    [ id |-> "page-x", index |-> UndefinedValue, thumbnail |-> "about:blank" ]

\* Requests with a classification that is no construction type, or with a
\* page index that is negative, not finite or left out
UncheckedRequests ==
    { ApiRequestOf(<<ApiPage(1, "data:image/png;base64,iVBORw0KGgo=")>>,
                   <<"industrial">>, <<>>),
      ApiRequestOf(<<NegativePage>>, <<"residential">>, <<>>),
      ApiRequestOf(<<InfinitePage>>, <<"residential">>, <<>>),
      ApiRequestOf(<<ApiPage(1, "data:image/png;base64,iVBORw0KGgo="),
                     UnnumberedPage>>, <<"commercial">>, <<>>) }

ApiRequests ==
    {UnparsedRequest}
    \cup { ApiRequestOf(l, <<>>, <<>>) : l \in PageListsFrom(1) }
    \cup { ApiRequestOf(l, <<"commercial">>, <<ct>>) :
             l \in PageListsFrom(1), ct \in CustomTypeLists \ {<<>>} }
    \cup UncheckedRequests

Segment(label, score, mask) == [label |-> label, score |-> score, mask |-> mask]

\* What the remote service may answer for a page
RemoteResults ==
    LET opaque      == <<Png(2, 2, {<<0, 0>>, <<1, 1>>})>>
        corner      == <<Png(2, 1, {<<1, 0>>})>>
        transparent == <<Png(2, 2, {})>>
        score       == <<Finite(FALSE, RatOf(87, 100))>>
        array(segments) == [array |-> TRUE, segments |-> segments]
    IN  { [array |-> FALSE, segments |-> <<>>],
          array(<<>>),
          array(<<Segment(<<"kitchen">>, score, opaque)>>),
          array(<<Segment(<<"bedroom">>, score, transparent)>>),
          array(<<Segment(<<"hall">>, score, <<CorruptBuffer>>),
                  Segment(<<>>, <<>>, corner)>>),
          array(<<Segment(<<"Server room">>, score, opaque),
                  Segment(<<"bath">>, <<>>, corner)>>),
          array(<<Segment(<<"office">>, score, <<>>),
                  Segment(<<"office">>, score, <<EmptyBuffer>>),
                  Segment(<<"closet">>, score, <<CorruptBuffer>>)>>) }

ApiInit ==
    /\ apiToken \in BOOLEAN
    /\ apiRequest \in ApiRequests
    /\ apiPc = "start"
    /\ apiIdx = 0 /\ apiRooms = <<>> /\ apiResponse = <<>> /\ apiLog = <<>>
    /\ apiRemote = <<>>
    /\ MockIdle /\ MaskIdle /\ SvcIdle /\ GenIdle /\ UiIdle

ApiNext ==
    \/ ApiStart
    \/ \E result \in RemoteResults : ApiRemoteReturns(result)
    \/ ApiRemoteThrows

SpecApi == ApiInit /\ [][ApiNext]_vars

-----------------------------------------------------------------------------
(* A request to either route *)

MaxPageIndex == 1

\* Values of body.pageIndex: indexes from -1 on, Infinity (1e999 in JSON), a
\* string, and none
PageIndexValues ==
    { NumberValue(n) : n \in (-1)..MaxPageIndex }
    \cup {InfinityValue, StringValue, UndefinedValue}

\* Values of body.customRoomTypes: none, and a list with an element without a
\* color, one with a blank label and a usable one
RawRoomTypeLists ==
    { <<>>,
      << << [label |-> <<"Atrium">>, color |-> <<>>],
            [label |-> <<"  ">>,     color |-> <<"#111111">>],
            [label |-> <<"Server Room">>, color |-> <<"#6366F1">>] >> >> }

SvcRequests ==
    {UnparsedSvcRequest}
    \cup { [ parsed |-> TRUE, pageIndex |-> v, classification |-> c,
             customRoomTypes |-> ct ] :
             v \in PageIndexValues,
             c \in {<<>>, <<"industrial">>} \cup { <<k>> : k \in Classifications },
             ct \in RawRoomTypeLists }

SvcInit ==
    /\ svcRequest \in SvcRequests
    /\ svcPc = "start"
    /\ svcResponse = <<>> /\ svcLog = <<>>
    /\ MockIdle /\ MaskIdle /\ ApiIdle /\ GenIdle /\ UiIdle

HandlersInit == ApiInit \/ SvcInit

HandlersNext == ApiNext \/ SvcPost

SpecHandlers == HandlersInit /\ [][HandlersNext]_vars


-----------------------------------------------------------------------------
(* The page component, from its construction on *)

File(name, pdf, readable, numPages) ==
    [name |-> name, pdf |-> pdf, readable |-> readable, numPages |-> numPages]

\* Files the user may choose: one that is no PDF, a PDF that cannot be read,
\* and documents of 1 to MaxDocPages pages
Files ==
    { File("notes.txt", FALSE, FALSE, 0), File("plan.pdf", TRUE, FALSE, 0) }
    \cup { File("plan.pdf", TRUE, TRUE, n) : n \in 1..MaxDocPages }

\* What /api/analyze finds for a page when the service answers: one room
ServiceRooms(page, customTypes) ==
    maskToBoundary(Png(2, 2, {<<0, 0>>, <<1, 1>>}), "kitchen",
                   Finite(FALSE, RatOf(87, 100)), page.index, 0, customTypes)

ResponseKinds == {"mock", "service"}

\* The body of a 2xx of /api/analyze for the request of a run: the rooms of
\* every page of the request, all from the mock detector or all from the
\* service
ServerData(run, kind) ==
    LET sent == run.pagesToProcess
        ids  == {sent[i].id : i \in 1..Len(sent)}
        page(id) == sent[CHOOSE i \in 1..Len(sent) : sent[i].id = id]
    IN  [ rooms |->
            [ id \in ids |->
                IF kind = "mock"
                THEN PageMockRooms(page(id).index, run.classification,
                                   run.customRoomTypes)
                ELSE ServiceRooms(page(id), run.customRoomTypes) ] ]

\* error.message: of the Error thrown for a response that is not ok, and of
\* the TypeError of a fetch that rejects
FailureMessages ==
    { "Analysis request failed: 500 Internal Server Error", "Failed to fetch" }

\* What the room type control passes to updateRoom: a type with its color
RoomEdits ==
    { [type |-> "Kitchen", color |-> getRoomColor("Kitchen", uiCustomRoomTypes)] }

\* The ids of the rooms shown for editing: those of the current page
EditableRooms ==
    IF currentPage = <<>> THEN {}
    ELSE {currentPage[1].rooms[k].id : k \in 1..Len(currentPage[1].rooms)}

UiInit == UiIdle /\ MockIdle /\ MaskIdle /\ ApiIdle /\ SvcIdle /\ GenIdle

UiNext ==
    \/ resetProject
    \/ \E option \in Classifications : setClassification(option)
    \/ \E file \in Files : handleFileChange(file)
    \/ \E l \in 1..Len(uiLoads) : FileRead(l)
    \/ handleProcess
    \/ \E r \in 1..Len(uiRuns), kind \in ResponseKinds :
          RunResolves(r, ServerData(uiRuns[r], kind))
    \/ \E r \in 1..Len(uiRuns), message \in FailureMessages : RunFails(r, message)
    \/ \E pageId \in PageIds : togglePageSelection(pageId)
    \/ \E roomId \in EditableRooms, data \in RoomEdits : updateRoom(roomId, data)

SpecUi == UiInit /\ [][UiNext]_vars

-----------------------------------------------------------------------------
(* The page component with a document loaded: analysis runs, selection and
   edits, and neither resetProject nor another file *)

\* The state when handleFileChange has loaded a document, chosen first
SessionInit ==
    /\ \E file \in {f \in Files : f.readable} :
          /\ uiPages = [n \in 1..file.numPages |-> PagePreview(n)]
          /\ uiFileName = <<file.name>>
    /\ uiSelectedPageId = <<uiPages[1].id>>
    /\ uiProcessing = FALSE /\ uiClassification = "residential"
    /\ uiAnalysisError = <<>> /\ uiLoadingPages = FALSE /\ uiUploadError = <<>>
    /\ uiRuns = <<>> /\ uiLoads = <<LoadDone>>
    /\ MockIdle /\ MaskIdle /\ ApiIdle /\ SvcIdle /\ GenIdle

SessionNext ==
    \/ \E option \in Classifications : setClassification(option)
    \/ handleProcess
    \/ \E r \in 1..Len(uiRuns), kind \in ResponseKinds :
          RunResolves(r, ServerData(uiRuns[r], kind))
    \/ \E r \in 1..Len(uiRuns), message \in FailureMessages : RunFails(r, message)
    \/ \E pageId \in PageIds : togglePageSelection(pageId)
    \/ \E roomId \in EditableRooms, data \in RoomEdits : updateRoom(roomId, data)

SpecSession == SessionInit /\ [][SessionNext]_vars

-----------------------------------------------------------------------------
(* Claims about the mock detector, under SpecMock *)

AllMockRooms ==
    { <<i, k>> \in (DOMAIN mockCalls) \X (1..8) : k <= Len(mockCalls[i].rooms) }

SameArguments(a, b) ==
    /\ a.pageIndex = b.pageIndex
    /\ a.classification = b.classification
    /\ a.customTypes = b.customTypes

MockSameResult ==
    \A i, j \in DOMAIN mockCalls :
        SameArguments(mockCalls[i], mockCalls[j])
            => mockCalls[i].rooms = mockCalls[j].rooms

\* A call appends its own result and leaves every earlier result as it was.
MockFrame ==
    SubSeq(mockCalls', 1, Len(mockCalls)) = mockCalls

BoundaryInPage(b) ==
    /\ RatLeq(RatInt(0), b.x)
    /\ RatLeq(RatInt(0), b.y)
    /\ RatLeq(RatAdd(b.x, b.width), RatInt(1))
    /\ RatLeq(RatAdd(b.y, b.height), RatInt(1))

MockExtents(b) ==
    /\ RatLeq(RatOf(25, 100), b.width) /\ RatLt(b.width, RatOf(70, 100))
    /\ RatLeq(RatOf(20, 100), b.height) /\ RatLt(b.height, RatOf(60, 100))

\* C2: every boundary returned by mockAnalyzeRooms has 0 <= x, 0 <= y,
\* x + width <= 1 and y + height <= 1, with width in [0.25, 0.70) and height
\* in [0.20, 0.60).
C2_MockBoundaryInPage ==
    \A c \in AllMockRooms :
        LET b == mockCalls[c[1]].rooms[c[2]].boundary
        IN  BoundaryInPage(b) /\ MockExtents(b)

\* Returned boxes that end in the last tenth of the page, one in each direction
C2_Witness ==
    /\ \E c \in AllMockRooms :
          LET b == mockCalls[c[1]].rooms[c[2]].boundary
          IN  RatLt(RatOf(9, 10), RatAdd(b.x, b.width))
    /\ \E c \in AllMockRooms :
          LET b == mockCalls[c[1]].rooms[c[2]].boundary
          IN  RatLt(RatOf(9, 10), RatAdd(b.y, b.height))

\* C3: the number of rooms returned by mockAnalyzeRooms is in [3, 8].
C3_MockRoomCount ==
    \A i \in DOMAIN mockCalls :
        Len(mockCalls[i].rooms) >= 3 /\ Len(mockCalls[i].rooms) <= 8

\* Calls whose first draw is below and above one half
C3_Witness ==
    /\ \E i \in DOMAIN mockCalls : Len(mockCalls[i].rooms) = 3
    /\ \E i \in DOMAIN mockCalls : Len(mockCalls[i].rooms) > 3

RECURSIVE NextValueTimes(_, _)
NextValueTimes(value, n) ==
    IF n = 0 \/ value = 0 THEN value
    ELSE IF n = 1 THEN NextValue(value)
    ELSE NextValueTimes(NextValueTimes(value, n \div 2), n - n \div 2)

\* The n-th value the generator seeded for pageIndex emits
DrawAt(pageIndex, n) == Emit(NextValueTimes(SeedValue(pageIndex + 1), n))

\* min(0.99, (0.65 + r * 0.3) * bias) for the room at position k of a call
ConfidenceTarget(call, k) ==
    LET r    == DrawAt(call.pageIndex, 1 + 6 * (k - 1) + 2)
        bias == BiasOf(call.classification, call.rooms[k].type)
        raw  == RatMul(RatAdd(RatOf(65, 100), RatMul(r, RatOf(3, 10))), bias)
    IN  IF RatLeq(raw, RatOf(99, 100)) THEN raw ELSE RatOf(99, 100)

IsHundredths(c) == \E n \in 0..100 : RatEq(c, RatOf(n, 100))

\* c is target rounded to two decimals: target - 0.005 < c <= target + 0.005
RoundedTo2(c, target) ==
    /\ RatLt(target, RatAdd(c, RatOf(1, 200)))
    /\ RatLeq(c, RatAdd(target, RatOf(1, 200)))

\* C4: every confidence returned by mockAnalyzeRooms, for either
\* classification and any bias of the tables or the default 1, is in
\* [0, 0.99], is a multiple of 0.01 and is min(0.99, (0.65 + r*0.3) * bias)
\* rounded to two decimals.
C4_MockConfidence ==
    \A c \in AllMockRooms :
        LET call == mockCalls[c[1]]
            conf == call.rooms[c[2]].confidence
        IN  /\ RatLeq(RatInt(0), conf) /\ RatLeq(conf, RatOf(99, 100))
            /\ IsHundredths(conf)
            /\ RoundedTo2(conf, ConfidenceTarget(call, c[2]))

\* A capped confidence of a biased type, and a confidence of a type with the
\* default bias, in the results.
C4_Witness ==
    /\ \E c \in AllMockRooms :
          LET call == mockCalls[c[1]]
              room == call.rooms[c[2]]
          IN  /\ RatEq(room.confidence, RatOf(99, 100))
              /\ RatLt(RatInt(1), BiasOf(call.classification, room.type))
    /\ \E c \in AllMockRooms :
          LET call == mockCalls[c[1]]
              room == call.rooms[c[2]]
          IN  RatEq(RatInt(1), BiasOf(call.classification, room.type))

-----------------------------------------------------------------------------
(* Claims about the extractor, under SpecMask *)

MaskReturned == maskPc = "done"
Mask == maskArgs.maskBuffer

\* The pixels of the mask whose alpha is above 0
OpaquePixels ==
    { p \in Pixels(Mask.width, Mask.height) :
        Mask.data[4 * (p[2] * Mask.width + p[1]) + 3] > 0 }

Least(S) == CHOOSE a \in S : \A b \in S : a <= b
Greatest(S) == CHOOSE a \in S : \A b \in S : a >= b

\* C5: maskToBoundary returns null for every decodable mask, of any size, in
\* which no pixel has alpha > 0, and a detection for every decodable mask with
\* at least one such pixel.
C5_MaskAbsentIffTransparent ==
    (MaskReturned /\ Mask.ok) => ((maskResult = <<>>) <=> (OpaquePixels = {}))

\* An all-transparent mask of more than one pixel, answered with null
C5_Witness ==
    /\ MaskReturned /\ Mask.ok
    /\ Mask.width > 1 /\ Mask.height > 1
    /\ OpaquePixels = {}
    /\ maskResult = <<>>

\* max(extent, 0.05) of the extent (max - min) / size
FlooredExtent(min, max, size) ==
    IF RatLeq(RatOf(1, 20), RatOf(max - min, size))
    THEN RatOf(max - min, size) ELSE RatOf(1, 20)

\* C6: for a decodable W x H mask with a pixel of alpha > 0, maskToBoundary
\* returns x = minX/W, y = minY/H, width = max((maxX - minX)/W, 0.05) and
\* height = max((maxY - minY)/H, 0.05) for the extreme coordinates of those
\* pixels; one opaque pixel at (px, py) gives x = px/W, y = py/H and width and
\* height of at least 0.05.
C6_MaskBoundingBox ==
    (MaskReturned /\ Mask.ok /\ OpaquePixels # {}) =>
        /\ maskResult # <<>>
        /\ LET b    == maskResult[1].boundary
               xs   == { p[1] : p \in OpaquePixels }
               ys   == { p[2] : p \in OpaquePixels }
           IN  /\ RatEq(b.x, RatOf(Least(xs), Mask.width))
               /\ RatEq(b.y, RatOf(Least(ys), Mask.height))
               /\ RatEq(b.width, FlooredExtent(Least(xs), Greatest(xs), Mask.width))
               /\ RatEq(b.height, FlooredExtent(Least(ys), Greatest(ys), Mask.height))
               /\ RatLeq(RatOf(1, 20), b.width)
               /\ RatLeq(RatOf(1, 20), b.height)

\* One opaque pixel, in neither the first column nor the first row
C6_Witness ==
    /\ MaskReturned /\ Mask.ok
    /\ Cardinality(OpaquePixels) = 1
    /\ \E p \in OpaquePixels : p[1] > 0 /\ p[2] > 0
    /\ maskResult # <<>>
    /\ RatEq(maskResult[1].boundary.width, RatOf(1, 20))

InUnitInterval(r) == RatLeq(RatInt(0), r) /\ RatLeq(r, RatInt(1))

\* C7: every boundary produced by maskToBoundary has x, y, width and height in
\* [0, 1] and x + width <= 1 and y + height <= 1, for every mask size and every
\* position of the non-transparent pixels.
C7_MaskBoundaryInPage ==
    (MaskReturned /\ maskResult # <<>>) =>
        LET b == maskResult[1].boundary
        IN  /\ InUnitInterval(b.x) /\ InUnitInterval(b.y)
            /\ InUnitInterval(b.width) /\ InUnitInterval(b.height)
            /\ BoundaryInPage(b)

\* The keyword rules in their order
RoomTypeRules ==
    << [keywords |-> {"living"},                type |-> "Living Room"],
       [keywords |-> {"kitchen"},               type |-> "Kitchen"],
       [keywords |-> {"bed"},                   type |-> "Bedroom"],
       [keywords |-> {"bath", "rest"},          type |-> "Bathroom"],
       [keywords |-> {"storage", "closet"},     type |-> "Storage"],
       [keywords |-> {"mechanical", "utility"}, type |-> "Mechanical"],
       [keywords |-> {"office", "workspace"},   type |-> "Workspace"],
       [keywords |-> {"corridor", "hall"},      type |-> "Circulation"] >>

\* keyword occurs in label, letter case ignored
OccursIn(keyword, label) ==
    \E i \in 0..(Len(label) - Len(keyword)) :
        \A j \in 1..Len(keyword) :
            LowerChar(CharAt(label, i + j)) = CharAt(keyword, j)

RuleMatches(n, label) ==
    \E keyword \in RoomTypeRules[n].keywords : OccursIn(keyword, label)

MatchingRules(label) == { n \in DOMAIN RoomTypeRules : RuleMatches(n, label) }

\* text is label with the first character of every word in upper case
Capitalised(text, label) ==
    /\ Len(text) = Len(label)
    /\ \A i \in 1..Len(label) :
          LET c == CharAt(label, i)
              first == ~IsSpaceChar(c) /\ (i = 1 \/ IsSpaceChar(CharAt(label, i - 1)))
          IN  CharAt(text, i) = (IF first THEN UpperChar(c) ELSE c)

\* C8: labelToRoomType gives the type of the first rule, in the order living,
\* kitchen, bed, bath/rest, storage/closet, mechanical/utility,
\* office/workspace, corridor/hall, one of whose keywords occurs in the label,
\* letter case ignored; a label no rule matches is returned with the first
\* letter of each white-space-separated word in upper case and otherwise
\* unchanged.  "Kitchen Area" and "kitchen" give "Kitchen", "Server Room"
\* gives "Server Room".
C8_LabelToRoomType ==
    (MaskReturned /\ maskResult # <<>>) =>
        LET type == maskResult[1].type
            label == maskArgs.label
        IN  /\ MatchingRules(label) # {}
                => type = RoomTypeRules[Least(MatchingRules(label))].type
            /\ MatchingRules(label) = {} => Capitalised(type, label)
            /\ label \in {"Kitchen Area", "kitchen"} => type = "Kitchen"
            /\ label = "Server Room" => type = "Server Room"

\* A label that two rules match, mapped by the earlier one
C8_Witness ==
    /\ MaskReturned /\ maskResult # <<>>
    /\ Cardinality(MatchingRules(maskArgs.label)) = 2
    /\ maskArgs.label = "corridorKitchen"
    /\ maskResult[1].type = "Kitchen"

\* C9: the confidence of a detection returned by maskToBoundary is in
\* [0.10, 0.99] and a multiple of 0.01: 0.99 for a score above 0.99, 0.10 for a
\* score below 0.10, the score rounded to two decimals otherwise.
C9_MaskConfidence ==
    (MaskReturned /\ maskResult # <<>>) =>
        LET conf  == maskResult[1].confidence
            score == maskArgs.score
            above == ~score.neg /\ (score.inf \/ RatLt(RatOf(99, 100), score.abs))
            below == score.neg \/ (~score.inf /\ RatLt(score.abs, RatOf(10, 100)))
        IN  /\ RatLeq(RatOf(10, 100), conf) /\ RatLeq(conf, RatOf(99, 100))
            /\ IsHundredths(conf)
            /\ above => RatEq(conf, RatOf(99, 100))
            /\ below => RatEq(conf, RatOf(10, 100))
            /\ (~above /\ ~below) => RoundedTo2(conf, score.abs)

\* The score 1.5, answered with 0.99
C9_Witness ==
    /\ MaskReturned /\ maskResult # <<>>
    /\ ~maskArgs.score.neg /\ ~maskArgs.score.inf
    /\ RatEq(maskArgs.score.abs, RatOf(3, 2))
    /\ RatEq(maskResult[1].confidence, RatOf(99, 100))

-----------------------------------------------------------------------------
(* Claims about /api/analyze *)

ApiPages == apiRequest.pages
ApiPositions == 1..Len(ApiPages)
Logged(kind, k) == \E i \in 1..Len(apiLog) : apiLog[i] = Event(kind, k)
LoggedTimes(kind, k) == Cardinality({i \in 1..Len(apiLog) : apiLog[i] = Event(kind, k)})
Responded == apiPc = "responded" /\ apiRequest.parsed /\ Len(ApiPages) > 0
ExpectedMock(k) ==
    mockAnalyzeRoomsOf(ApiPages[k].index, BodyClassification, BodyCustomTypes)
RoomsOf(k) == apiResponse[1].rooms[ApiPages[k].id]

\* The response of a request with pages is a success with rooms for every page
ApiSucceeds ==
    /\ Len(apiResponse) = 1
    /\ apiResponse[1].status \in 200..299
    /\ apiResponse[1].rooms = apiRooms
    /\ \A k \in ApiPositions : ApiPages[k].id \in DOMAIN apiResponse[1].rooms

\* Every page was analysed once, whatever happened to the pages before it
ApiEveryPageAnalysed ==
    \A k \in ApiPositions :
        /\ LoggedTimes("store", k) = 1
        /\ Base64Part(ApiPages[k].thumbnail) # "" =>
               /\ LoggedTimes("call", k) = 1
               /\ LoggedTimes("throw", k) + LoggedTimes("result", k) = 1

\* A page whose call threw, or that could not be sent, has its mock rooms
ApiFailedPagesMocked ==
    \A k \in ApiPositions :
        Logged("throw", k) \/ Base64Part(ApiPages[k].thumbnail) = ""
            => RoomsOf(k) = ExpectedMock(k)

\* Without a token: mock rooms for every page and no remote call
ApiAllMocked ==
    /\ apiResponse[1].fallback
    /\ \A k \in ApiPositions : RoomsOf(k) = ExpectedMock(k) /\ ~Logged("call", k)

\* The rooms stored for a page are never changed by what follows
ApiRoomsKept ==
    \A id \in DOMAIN apiRooms : id \in DOMAIN apiRooms' /\ apiRooms'[id] = apiRooms[id]

\* C10: with a token, a page of /api/analyze whose remote call throws (or that
\* cannot be sent) gets exactly mockAnalyzeRooms(page.index, classification,
\* customTypes), every other page is still analysed once and the rooms stored
\* for it are never changed, and the response is a 2xx with rooms for every
\* page; without a token every page gets its mock rooms and no remote call is
\* made.
C10_PerPageFallback ==
    /\ [](Responded =>
            /\ ApiSucceeds
            /\ IF apiToken THEN ApiEveryPageAnalysed /\ ApiFailedPagesMocked
               ELSE ApiAllMocked)
    /\ [][ApiRoomsKept]_vars

\* A two-page request answered after the first page's call threw and the
\* second page's call returned a usable mask
C10_Witness ==
    /\ Responded /\ apiToken /\ Len(ApiPages) = 2
    /\ Logged("throw", 1) /\ Logged("result", 2)
    /\ RoomsOf(1) = ExpectedMock(1)
    /\ RoomsOf(2)[1].id = <<"hf-room", ApiPages[2].index, 0>>

-----------------------------------------------------------------------------
(* Claims about the segments of one page of /api/analyze *)

\* The remote call of the page at position k returned
Returned(k) == \E i \in 1..Len(apiRemote) : apiRemote[i].page = k

\* What it returned
RemoteOf(k) ==
    (CHOOSE e \in {apiRemote[i] : i \in 1..Len(apiRemote)} : e.page = k).result

SegmentsOf(k) == IF RemoteOf(k).array THEN RemoteOf(k).segments ELSE <<>>

\* What the segment at position i of page k's result yields on its own:
\* <<>> when its mask is absent, empty, undecodable or fully transparent
SegmentDetection(k, i) ==
    LET segment == SegmentsOf(k)[i]
    IN  IF segment.mask = <<>> THEN <<>>
        ELSE IF segment.mask[1].length = 0 THEN <<>>
        ELSE maskToBoundary(
               segment.mask[1],
               IF segment.label = <<>> THEN DefaultLabel(i - 1)
               ELSE segment.label[1],
               IF segment.score = <<>> THEN DefaultScore ELSE segment.score[1],
               ApiPages[k].index, i - 1, BodyCustomTypes)

\* The positions of the segments that survive
Survivors(k) == {i \in 1..Len(SegmentsOf(k)) : SegmentDetection(k, i) # <<>>}
Dropped(k) == (1..Len(SegmentsOf(k))) \ Survivors(k)

\* The place of i among the elements of S in increasing order
Rank(S, i) == Cardinality({j \in S : j <= i})

\* The rooms of page k are the detections of the surviving segments, in
\* segment order
SurvivorsKept(k) ==
    /\ Len(RoomsOf(k)) = Cardinality(Survivors(k))
    /\ \A i \in Survivors(k) :
           RoomsOf(k)[Rank(Survivors(k), i)] = SegmentDetection(k, i)[1]

\* C11: within one page, a segment whose mask is absent, empty or fails to
\* decode is dropped without ending the loop over the segments: the page's
\* rooms are the detections of the surviving segments in segment order, later
\* segments included, and the page gets its mock rooms only when no segment
\* survives.
C11_SegmentsDroppedSingly ==
    Responded /\ apiToken =>
        \A k \in ApiPositions :
            Returned(k) =>
                IF Survivors(k) = {} THEN RoomsOf(k) = ExpectedMock(k)
                ELSE SurvivorsKept(k)

\* A page answered with an undecodable first segment and a usable second one:
\* its only room comes from the second segment
C11_Witness ==
    /\ Responded /\ apiToken
    /\ \E k \in ApiPositions :
           /\ Returned(k)
           /\ Dropped(k) = {1} /\ Survivors(k) = {2}
           /\ SegmentsOf(k)[1].mask = <<CorruptBuffer>>
           /\ Len(RoomsOf(k)) = 1
           /\ RoomsOf(k)[1].id = <<"hf-room", ApiPages[k].index, 1>>

\* The segments of page k that had a mask from which no detection was extracted
ExtractionFailed(k) == {i \in Dropped(k) : SegmentsOf(k)[i].mask # <<>>}

\* C12: whenever the extraction of at least one segment's mask fails for a
\* page, the rooms of that page in the response are the output of
\* mockAnalyzeRooms for that page.
C12_AnyFailureFallsBack ==
    Responded /\ apiToken =>
        \A k \in ApiPositions :
            Returned(k) /\ ExtractionFailed(k) # {} =>
                RoomsOf(k) = ExpectedMock(k)

-----------------------------------------------------------------------------
(* Claims about the validation of requests *)

\* The request to /api/analyze carries an invalid page index or classification
ApiRequestInvalid ==
    /\ apiRequest.parsed
    /\ \/ \E k \in ApiPositions : ~ValidPageIndex(ApiPages[k].index)
       \/ /\ apiRequest.classification # <<>>
          /\ ~ValidClassification(apiRequest.classification)

\* The request to the single-page route does
SvcRequestInvalid ==
    /\ svcRequest.parsed
    /\ \/ ~ValidPageIndex(svcRequest.pageIndex)
       \/ ~ValidClassification(svcRequest.classification)

\* The single-page route rejects an invalid request and computes nothing
SvcRejectsInvalid ==
    SvcRequestInvalid =>
        /\ svcLog = <<>>
        /\ svcPc = "responded" => svcResponse[1].status \in 400..499

\* /api/analyze does
ApiRejectsInvalid ==
    ApiRequestInvalid =>
        /\ apiLog = <<>>
        /\ apiPc = "responded" => apiResponse[1].status \in 400..499

\* C13: in every request handler that accepts these fields, a request with an
\* invalid page index (negative, not finite, not a number) or with a
\* classification other than "residential" and "commercial" is rejected with
\* an error response before any detection is computed: neither
\* mockAnalyzeRooms nor the remote service is called for any of its pages.
C13_InvalidRejected == SvcRejectsInvalid /\ ApiRejectsInvalid

-----------------------------------------------------------------------------
(* Claims about getRoomColor, as the extractor calls it *)

\* The positions of the definitions labelled `type`
Labelled(defs, type) == {i \in 1..Len(defs) : defs[i].label = type}

\* C15: getRoomColor(type, customTypes) is the color of the base type whose
\* label is `type` if there is one, else the color of the first custom type
\* with that label, else "#94A3B8"; a custom type that reuses a base label
\* never overrides the base color.
C15_RoomColor ==
    maskPc = "done" /\ maskResult # <<>> =>
        LET type   == maskResult[1].type
            color  == maskResult[1].color
            base   == Labelled(baseRoomTypes, type)
            custom == Labelled(maskArgs.customTypes, type)
        IN  /\ \A i \in base : color = baseRoomTypes[i].color
            /\ base = {} /\ custom # {} =>
                   color = maskArgs.customTypes[Least(custom)].color
            /\ base = {} /\ custom = {} => color = "#94A3B8"

\* The color of a segment labelled as a kitchen, with a custom type "Kitchen"
\* of another color: the base color
C15_Witness ==
    /\ maskPc = "done" /\ maskResult # <<>>
    /\ maskResult[1].type = "Kitchen"
    /\ Labelled(maskArgs.customTypes, "Kitchen") # {}
    /\ maskArgs.customTypes[Least(Labelled(maskArgs.customTypes, "Kitchen"))].color
           # maskResult[1].color
    /\ maskResult[1].color = "#0EA5E9"

-----------------------------------------------------------------------------
(* Claims about the classification, under SpecMock *)

\* Calls i and j differ at most in the classification
SamePageAndTypes(i, j) ==
    /\ mockCalls[i].pageIndex = mockCalls[j].pageIndex
    /\ mockCalls[i].customTypes = mockCalls[j].customTypes

\* Their results agree on everything the classification has no part in
SameLayout(i, j) ==
    LET a == mockCalls[i].rooms
        b == mockCalls[j].rooms
    IN  /\ Len(a) = Len(b)
        /\ \A k \in 1..Len(a) :
              /\ a[k].id = b[k].id
              /\ a[k].label = b[k].label
              /\ a[k].boundary = b[k].boundary

\* C16: for the same page index and custom types, mockAnalyzeRooms with
\* "residential" and with "commercial" returns lists of the same length that
\* agree position by position on id, label and boundary; only type, color and
\* confidence may differ.
C16_ClassificationKeepsLayout ==
    \A i, j \in 1..Len(mockCalls) : SamePageAndTypes(i, j) => SameLayout(i, j)

\* A residential and a commercial call for the same page whose results have
\* the same layout and different confidences
C16_Witness ==
    \E i, j \in 1..Len(mockCalls) :
        /\ SamePageAndTypes(i, j)
        /\ mockCalls[i].classification = "residential"
        /\ mockCalls[j].classification = "commercial"
        /\ SameLayout(i, j)
        /\ \E k \in 1..Len(mockCalls[i].rooms) :
              mockCalls[i].rooms[k].confidence # mockCalls[j].rooms[k].confidence

-----------------------------------------------------------------------------
(* Claims about the generator, under SpecGen *)

GenStates == 1..(Modulus - 1)

\* The value emitted is in [0, 1)
EmittedInUnit ==
    \A i \in 1..Len(genEmitted) :
        /\ RatLeq(RatInt(0), genEmitted[i])
        /\ RatLt(genEmitted[i], RatInt(1))

\* C17: for every integer seed > 0 the state of the generator is always in
\* [1, 2147483646]: the initial state seed mod 2147483647, shifted by
\* 2147483646 when it is 0, is in that range, every step
\* state' = (state * 16807) mod 2147483647 keeps it there (it never becomes 0),
\* and every value emitted, (state - 1)/2147483646, is in [0, 1).
C17_GeneratorState ==
    genPc = "made" /\ genSeed > 0 =>
        /\ genValue \in GenStates
        /\ genDraws = 0 =>
               genValue = (IF genSeed % Modulus = 0 THEN Modulus - 1
                           ELSE genSeed % Modulus)
        /\ EmittedInUnit

\* A generator seeded with the modulus itself, whose initial state is the
\* shifted 2147483646, after its calls: the state is still in range
C17_Witness ==
    /\ genPc = "made" /\ genSeed = Modulus /\ genDraws = MaxDraws
    /\ genValue \in GenStates
    /\ Len(genEmitted) = 1 /\ RatLt(genEmitted[1], RatInt(1))

-----------------------------------------------------------------------------
(* Claims about the order of the pages in /api/analyze *)

LogPositions == 1..Len(apiLog)

\* What happens to a page happens after everything that happens to the pages
\* before it in the request
InRequestOrder ==
    \A i, j \in LogPositions : i < j => apiLog[i].page <= apiLog[j].page

\* When the remote call of a page starts, the rooms of every page before it
\* have been stored
CallsAfterStores ==
    /\ \A j \in LogPositions :
          apiLog[j].kind = "call" =>
              \A k \in 1..(apiLog[j].page - 1) :
                  \E i \in 1..(j - 1) : apiLog[i] = Event("store", k)
    /\ apiPc = "awaiting" =>
          \A k \in 1..(apiIdx - 1) : ApiPages[k].id \in DOMAIN apiRooms

\* No page is sent twice, and no call starts while another is pending
NoRetries ==
    /\ \A k \in ApiPositions : LoggedTimes("call", k) <= 1
    /\ \A j \in LogPositions :
          apiLog[j].kind = "call" =>
              \A i \in 1..(j - 1) :
                  apiLog[i].kind = "call" =>
                      \E m \in (i + 1)..(j - 1) :
                          /\ apiLog[m].kind \in {"result", "throw"}
                          /\ apiLog[m].page = apiLog[i].page

\* C18: /api/analyze analyses the pages one after the other in the order of
\* the request and without retries: the remote call of page k+1 does not start
\* before the rooms of page k (detections or mock rooms) are stored, and at
\* most one remote call is made per page and request.
C18_PagesSequential == InRequestOrder /\ CallsAfterStores /\ NoRetries

\* A request of two pages answered after a remote call for each, the first of
\* which threw: the second call follows the store of the first page
C18_Witness ==
    /\ Responded /\ apiToken /\ Len(ApiPages) = 2
    /\ LoggedTimes("call", 1) = 1 /\ LoggedTimes("call", 2) = 1
    /\ Logged("throw", 1)
    /\ \E i, j \in LogPositions :
          i < j /\ apiLog[i] = Event("store", 1) /\ apiLog[j] = Event("call", 2)

-----------------------------------------------------------------------------
(* Claims about the page component, under SpecUi *)

UiPositions == 1..Len(uiPages)

\* Everything but the pages is left as it is
RestKept ==
    UNCHANGED <<uiSelectedPageId, uiProcessing, uiClassification, uiAnalysisError,
                uiLoadingPages, uiUploadError, uiFileName, uiRuns, uiLoads>>

\* The page at position i keeps everything except, possibly, its rooms
PageKeptButRooms(i) ==
    /\ uiPages'[i].id = uiPages[i].id
    /\ uiPages'[i].index = uiPages[i].index
    /\ uiPages'[i].thumbnail = uiPages[i].thumbnail
    /\ uiPages'[i].status = uiPages[i].status
    /\ uiPages'[i].selected = uiPages[i].selected

\* `after` is `before` with data applied and the manual flag set
RoomOverridden(before, after, data) ==
    /\ IsManual(after)
    /\ \A f \in DOMAIN data : after[f] = data[f]
    /\ \A f \in DOMAIN before \ (DOMAIN data \cup {"manual"}) :
          f \in DOMAIN after /\ after[f] = before[f]

\* What a step of updateRoom(roomId, data) does
UpdateRoomEffect(roomId, data) ==
    /\ RestKept
    /\ Len(uiPages') = Len(uiPages)
    /\ \A i \in UiPositions :
          /\ PageKeptButRooms(i)
          /\ Len(uiPages'[i].rooms) = Len(uiPages[i].rooms)
          /\ \A k \in 1..Len(uiPages[i].rooms) :
                IF <<uiPages[i].id>> = uiSelectedPageId
                   /\ uiPages[i].rooms[k].id = roomId
                THEN RoomOverridden(uiPages[i].rooms[k], uiPages'[i].rooms[k], data)
                ELSE uiPages'[i].rooms[k] = uiPages[i].rooms[k]

\* The step is a call of updateRoom for the room roomId of page pageId
UpdatesRoom(pageId, roomId) ==
    /\ <<pageId>> = uiSelectedPageId
    /\ roomId \in EditableRooms
    /\ \E data \in RoomEdits : updateRoom(roomId, data)

\* A manual room after a step was manual before it, or the step updated it
ManualOnlyByUpdate ==
    \A i \in 1..Len(uiPages') :
        \A k \in 1..Len(uiPages'[i].rooms) :
            IsManual(uiPages'[i].rooms[k]) =>
                \/ <<uiPages'[i].id, uiPages'[i].rooms[k].id>> \in ManualRooms
                \/ UpdatesRoom(uiPages'[i].id, uiPages'[i].rooms[k].id)

\* C19: updateRoom(roomId, data) applies data and sets manual = true on
\* exactly the rooms with id roomId of the currently selected page, and leaves
\* every other room, every other page and the status and selected flag of
\* every page as they are; and a room never has manual = true unless
\* updateRoom was applied to it.
C19_UpdateRoom ==
    /\ [][ /\ \A roomId \in EditableRooms, data \in RoomEdits :
                updateRoom(roomId, data) => UpdateRoomEffect(roomId, data)
           /\ ManualOnlyByUpdate ]_vars
    /\ [](UiIdle => ManualRooms = {})

\* A processed page with one room overridden to a kitchen and another room
\* as detected, the other page having rooms too
C19_Witness ==
    \E i \in UiPositions :
        /\ <<uiPages[i].id>> = uiSelectedPageId
        /\ Len(uiPages[i].rooms) >= 3
        /\ \E k, n \in 1..Len(uiPages[i].rooms) :
              /\ IsManual(uiPages[i].rooms[k])
              /\ uiPages[i].rooms[k].type = "Kitchen"
              /\ ~IsManual(uiPages[i].rooms[n])
        /\ \E j \in UiPositions : j # i /\ Len(uiPages[j].rooms) > 0

-----------------------------------------------------------------------------
(* Claims about analysis runs on a loaded document, under SpecSession *)

\* The rooms of every page are left as they are
RoomsKept ==
    /\ Len(uiPages') = Len(uiPages)
    /\ \A i \in UiPositions : uiPages'[i].rooms = uiPages[i].rooms

\* C14: when the whole request of a run fails in the page component (fetch
\* rejects, or the response is not a 2xx), an error message is shown and the
\* existing data stays as it was: the room list of every page, manually
\* edited rooms included, is the same after the failed run as before it.
C14_FailureKeepsRooms ==
    [][ \A r \in 1..Len(uiRuns), message \in FailureMessages :
            RunFails(r, message) =>
                /\ uiAnalysisError' = <<message>>
                /\ RoomsKept ]_vars

\* The pages that run r submitted
SubmittedIds(r) ==
    {uiRuns[r].pagesToProcess[i].id : i \in 1..Len(uiRuns[r].pagesToProcess)}

\* After the step, every page that run r submitted is processed and has the
\* rooms of `result`, none of them overridden manually
SubmittedReplaced(r, result) ==
    \A id \in SubmittedIds(r) :
        \E i \in 1..Len(uiPages') :
            /\ uiPages'[i].id = id
            /\ uiPages'[i].status = "processed"
            /\ uiPages'[i].rooms = result[id]
            /\ \A k \in 1..Len(uiPages'[i].rooms) : ~IsManual(uiPages'[i].rooms[k])

\* The rooms the fallback of run r computes for the pages it submitted
FallbackRooms(r) ==
    LET sent == uiRuns[r].pagesToProcess
    IN  [ id \in SubmittedIds(r) |->
            PageMockRooms(sent[CHOOSE i \in 1..Len(sent) : sent[i].id = id].index,
                          uiRuns[r].classification, uiRuns[r].customRoomTypes) ]

\* C20: when a run completes, by a successful response or by the fallback of
\* the page component, every page submitted in that run has status
\* "processed" and its room list is replaced wholesale by the result of that
\* run, so that no manually overridden room from before survives on a
\* submitted page, under any interleaving of edits and selection toggles with
\* the run.
C20_RunReplacesSubmitted ==
    [][ \A r \in 1..Len(uiRuns) :
            /\ \A kind \in ResponseKinds :
                  RunResolves(r, ServerData(uiRuns[r], kind)) =>
                      SubmittedReplaced(r, ServerData(uiRuns[r], kind).rooms)
            /\ \A message \in FailureMessages :
                  RunFails(r, message) => SubmittedReplaced(r, FallbackRooms(r)) ]_vars

\* The calls of handleProcess that have not returned
PendingRuns == {r \in 1..Len(uiRuns) : uiRuns[r].pc = "pending"}

\* No run is in flight: the processing flag is down and no call is pending
NoRunInFlight == ~uiProcessing /\ PendingRuns = {}

\* C21: no page is left stuck in status "processing": in every client state
\* in which no analysis run is in flight (the processing flag is false and no
\* call of handleProcess is pending), no page has status "processing",
\* whatever the interleaving of handleProcess with togglePageSelection,
\* resetProject and handleFileChange.
C21_NoPageStuck ==
    NoRunInFlight => \A i \in UiPositions : uiPages[i].status # "processing"

\* C22: at most one analysis run is in flight at any time in the client: a
\* second call of handleProcess cannot get past its guard between the start
\* of a run and its completion, whatever the interleaving with resetProject,
\* handleFileChange and togglePageSelection.
C22_OneRunInFlight == Cardinality(PendingRuns) <= 1

\* Without resetProject the flag is up exactly while a run is pending, and one
\* run at most is
FlagGuardsRuns ==
    /\ Cardinality(PendingRuns) <= 1
    /\ uiProcessing <=> PendingRuns # {}

\* The step is the completion of run r, by an answer or by the fallback
Completes(r) ==
    \/ \E kind \in ResponseKinds : RunResolves(r, ServerData(uiRuns[r], kind))
    \/ \E message \in FailureMessages : RunFails(r, message)

\* The page at position i has the status and the rooms it had
StatusAndRoomsKept(i) ==
    /\ uiPages'[i].status = uiPages[i].status
    /\ uiPages'[i].rooms = uiPages[i].rooms

\* C23: the completion of an analysis run changes the status and the rooms of
\* only the pages submitted in that run's request: a page that was not
\* submitted, one selected while the run was in flight included, keeps its
\* status and its room list when the run completes.
C23_OnlySubmittedChange ==
    [][ \A r \in 1..Len(uiRuns) :
            Completes(r) =>
                \A i \in UiPositions :
                    uiPages[i].id \notin SubmittedIds(r) => StatusAndRoomsKept(i) ]_vars

-----------------------------------------------------------------------------
(* Claims about the rooms of a successful response *)

\* The handler has answered with a 2xx
AnsweredOk ==
    /\ apiPc = "responded"
    /\ Len(apiResponse) = 1
    /\ apiResponse[1].status \in 200..299

\* The response has a room list for the page at position k, and it is not empty
HasRooms(k) ==
    /\ ApiPages[k].id \in DOMAIN apiResponse[1].rooms
    /\ Len(apiResponse[1].rooms[ApiPages[k].id]) > 0

\* Every page index of the request is a finite number
IndexesFinite ==
    \A k \in ApiPositions :
        ApiPages[k].index.type = "number" /\ ApiPages[k].index.finite

\* With finite page indexes every page of a successful response has rooms
FiniteIndexesHaveRooms ==
    (AnsweredOk /\ IndexesFinite) => \A k \in ApiPositions : HasRooms(k)

\* C24: every successful (2xx) response of the /api/analyze handler maps every
\* page id of the request to a non-empty room list: a page is never missing
\* from the mapping and never mapped to an empty list, whatever combination of
\* remote success, empty remote result, dropped segments and remote failure
\* occurs for the pages.
C24_EveryPageHasRooms ==
    AnsweredOk => \A k \in ApiPositions : HasRooms(k)

-----------------------------------------------------------------------------
(* Claims about the number of rooms of the mock detector *)

MockCallPositions == 1..Len(mockCalls)

\* The list has no more than 5 rooms, its ids are pairwise distinct, and the
\* label of the room at idx is randomRoomNames[idx], the index idx mod 8 not
\* having wrapped
AtMostFiveDistinct(rooms) ==
    /\ Len(rooms) <= 5
    /\ \A i, j \in 1..Len(rooms) : rooms[i].id = rooms[j].id => i = j
    /\ \A i \in 1..Len(rooms) :
          /\ i <= Len(randomRoomNames)
          /\ rooms[i].label = randomRoomNames[i]

\* For every index no more than 5 rooms are returned, distinct in their ids;
\* for a finite index they are 3, 4 or 5, and none otherwise
MockRoomsByIndex ==
    \A n \in MockCallPositions :
        /\ AtMostFiveDistinct(mockCalls[n].rooms)
        /\ IF mockCalls[n].pageIndex.type = "number" /\ mockCalls[n].pageIndex.finite
           THEN Len(mockCalls[n].rooms) \in {3, 4, 5}
           ELSE Len(mockCalls[n].rooms) = 0

\* C25: the number of rooms returned by mockAnalyzeRooms is always 3, 4 or 5
\* and never more, so that the label index idx mod 8 never wraps and the room
\* ids room-<pageIndex>-<idx> within one result are pairwise distinct.
C25_ThreeToFiveRooms ==
    \A n \in MockCallPositions :
        /\ Len(mockCalls[n].rooms) \in {3, 4, 5}
        /\ AtMostFiveDistinct(mockCalls[n].rooms)

=============================================================================
